---- MODULE Spec2Model ----
(***************************************************************************)
(* A model of algopytest's transaction pipeline (transaction_ops.py): the  *)
(* transaction_boilerplate decorator, the TxnElemsContext / TxnIDContext   *)
(* switches, the DeployedAppID / DeployedAssetID wrappers and the          *)
(* composite transaction types, together with the algod calls the pipeline *)
(* makes through client_ops.py.                                            *)
(*                                                                         *)
(* One caller runs a test script: it enters and leaves scopes, calls       *)
(* operations and keeps the unsent (signer, payload) pairs it was handed.  *)
(* A pipeline call is a sequence of steps (pc); the steps that talk to     *)
(* algod have a failing twin.  Python's None is the string "None" where    *)
(* the other values are strings and the record NoneV where they are        *)
(* records.                                                                *)
(***************************************************************************)
EXTENDS Integers, Sequences, FiniteSets, TLC

VARIABLES
    _no_log,        \* transaction_ops._no_log        : "None" | "True" | "False"
    _no_params,     \* transaction_ops._no_params
    _no_send,       \* transaction_ops._no_send
    _no_sign,       \* transaction_ops._no_sign
    _with_txn_id,   \* transaction_ops._with_txn_id
    stack,          \* the with-blocks the caller is inside, innermost last
    pc,             \* the caller's position
    call,           \* the frame of the current (or last) pipeline call
    ev,             \* what the current (or last) call did, in order
    exc,            \* the exception in flight, "None" when there is none
    result,         \* what the last operation handed back to the caller
    lastexit,       \* the last __exit__ that ran
    heap,           \* the algosdk Transaction objects alive, by reference
    msigs,          \* the algosdk Multisig descriptors alive, by reference
    held,           \* the unsent (signer, payload) pairs the caller keeps
    ConfigParams,   \* config_params.ConfigParams, the fields the model reads
    lru_cache,      \* what lru_cache holds of _initial_funds_account()
    threads         \* the callers of two threads, each with its position

vars == <<_no_log, _no_params, _no_send, _no_sign, _with_txn_id, stack, pc,
          call, ev, exc, result, lastexit, heap, msigs, held, ConfigParams,
          lru_cache, threads>>

\* what no step of the one caller's pipeline call writes
outside == <<ConfigParams, lru_cache, threads>>

switches == <<_no_log, _no_params, _no_send, _no_sign, _with_txn_id>>

----------------------------------------------------------------------------
(* Bounds of the model *)

MaxDepth == 2       \* with-blocks nested at most this deep
MaxHeld == 2        \* unsent pairs the caller keeps at most
MaxTag == 2         \* group constructions a Transaction goes through at most
MaxEntries == 2     \* entries of an application's state at most
MaxLag == 2         \* sleeps until the indexer has caught up at most
MaxCalls == 1       \* pipeline calls of each of two concurrent callers at most

(* Program constants *)

FixedFee == 1000    \* suggested_params(flat_fee=True, fee=1000)
RoundBudget == 4    \* wait_for_confirmation(client, transaction_id, 4)
DefaultIndexerTimeout == 61     \* _ConfigParams.indexer_timeout: int = 61
StepsPerSecond == 10            \* sleep_step = 0.1

----------------------------------------------------------------------------
(* Values *)

NoneV == [kind |-> "None"]

Tri == {"None", "True", "False"}

AlgoUser(address, private_key) ==
    [address |-> address, private_key |-> private_key]

UserA == AlgoUser("A", "skA")
UserB == AlgoUser("B", "skB")
UserC == AlgoUser("C", "skC")
_NullUser == AlgoUser("", "None")

\* params as the caller may pass them; NoneV stands for params=None
CallerParams == [kind |-> "SuggestedParams", src |-> "caller",
                 flat_fee |-> FALSE, fee |-> 0]

\* what algod's suggested_params() answers before the kwargs are set on it
AlgodParams == [kind |-> "SuggestedParams", src |-> "algod",
                flat_fee |-> FALSE, fee |-> 0]

\* client_ops.suggested_params(**kwargs): fetch, then setattr per kwarg
suggested_params(flat_fee, fee) ==
    [AlgodParams EXCEPT !.flat_fee = flat_fee, !.fee = fee]

----------------------------------------------------------------------------
(* The operations and their declarations *)

PlainOps == {"payment_transaction", "delete_app", "destroy_asset",
             "_create_compiled_app", "_create_asset"}

CompositeOps == {"smart_signature_transaction", "multisig_transaction",
                 "group_transaction"}

PipelineOps == PlainOps \cup CompositeOps

\* the arguments of @transaction_boilerplate(...) of each operation;
\* format_finish and return_fn name the field the lambda reads
Declared(op) ==
    [no_log |-> FALSE,
     no_params |-> op \in {"multisig_transaction", "group_transaction"},
     no_send |-> FALSE,
     no_sign |-> op = "smart_signature_transaction",
     with_txn_id |-> FALSE,
     format_finish |->
        CASE op = "_create_compiled_app" -> "application-index"
          [] op = "delete_app" -> "apid"
          [] op = "_create_asset" -> "asset-index"
          [] op = "destroy_asset" -> "caid"
          [] OTHER -> "None",
     return_fn |->
        CASE op = "_create_compiled_app" -> "application-index"
          [] op = "_create_asset" -> "asset-index"
          [] OTHER -> "None"]

\* the public functions that call a pipeline operation and wrap its result
PublicWrappers == {"create_app", "create_compiled_app", "create_asset"}

InnerOp(outer) ==
    IF outer = "create_asset" THEN "_create_asset" ELSE "_create_compiled_app"

\* the type of transaction each plain builder makes
TxnType(op) ==
    CASE op = "payment_transaction" -> "pay"
      [] op = "delete_app" -> "appl-delete"
      [] op = "destroy_asset" -> "acfg-destroy"
      [] op = "_create_compiled_app" -> "appl-create"
      [] op = "_create_asset" -> "acfg-create"

\* the bug: the declared default wins over the override
Resolve_DeclaredOnly(declared, override) == declared

\* f_x = x if _x is None else _x
Resolve(declared, override) ==
    IF override = "None" THEN declared ELSE override = "True"

----------------------------------------------------------------------------
(* Transactions, payloads and what signing makes of them *)

NoGroup == [kind |-> "None"]

\* an algosdk Transaction as a plain builder makes it: group is unset
Transaction(type, sender, params, target) ==
    [type |-> type, sender |-> sender, params |-> params, target |-> target,
     group |-> NoGroup]

\* the payloads a builder returns; ref and mref point into heap and msigs
PlainTxn(ref) == [kind |-> "Transaction", ref |-> ref]

LogicSigTransaction(ref, lsig) ==
    [kind |-> "LogicSigTransaction", ref |-> ref, lsig |-> lsig]

_MultisigTxn(ref, signing_accounts, mref) ==
    [kind |-> "_MultisigTxn", ref |-> ref,
     signing_accounts |-> signing_accounts, mref |-> mref]

_GroupTxn(signers, transactions) ==
    [kind |-> "_GroupTxn", signers |-> signers, transactions |-> transactions]

\* the multi-signature account of the model: MultisigAccount(1, 2, [A, B]);
\* MultisigAccount.__init__ passes no private key to AlgoUser.__init__
MsigAccount ==
    [address |-> "M", private_key |-> "None", version |-> 1, threshold |-> 2,
     owner_accounts |-> <<UserA, UserB>>]

MsigUser == AlgoUser(MsigAccount.address, MsigAccount.private_key)

\* MultisigAccount.attributes: a new Multisig with no signature on it
attributes(account) ==
    [version |-> account.version, threshold |-> account.threshold,
     subsigs |-> [i \in 1..Len(account.owner_accounts) |->
                    [public_key |-> account.owner_accounts[i].address,
                     signature |-> NoneV]]]

\* the bug: the signature is over the transaction as it was before it got
\* its group id
SignedTransaction_Untagged(txn, private_key) ==
    [kind |-> "SignedTransaction",
     transaction |-> [txn EXCEPT !.group = NoGroup], key |-> private_key]

\* Transaction.sign(private_key): a signature by that key over the
\* transaction as it is now; a missing key makes algosdk raise
SignedTransaction(txn, private_key) ==
    [kind |-> "SignedTransaction", transaction |-> txn, key |-> private_key]

Signature(txn, private_key) ==
    [kind |-> "Signature", over |-> txn, key |-> private_key]

\* the public key (address) a private key belongs to
PublicKey(private_key) ==
    CASE private_key = "skA" -> "A"
      [] private_key = "skB" -> "B"
      [] private_key = "skC" -> "C"
      [] OTHER -> "None"

\* the owner's slot a private key signs in, 0 when it is no owner's key
OwnerIndex(msig, private_key) ==
    LET hits == {i \in 1..Len(msig.subsigs) :
                    msig.subsigs[i].public_key = PublicKey(private_key)}
    IN IF hits = {} THEN 0 ELSE CHOOSE i \in hits : \A j \in hits : i <= j

\* algosdk MultisigTransaction.sign(private_key) on the descriptor msig:
\* the sender must be the multisig address and the key an owner's
MultisigTransactionSign(txn, msig, private_key) ==
    IF txn.sender # MsigAccount.address
    THEN [err |-> "BadTxnSenderError", msig |-> msig]
    ELSE IF private_key = "None"
    THEN [err |-> "TypeError", msig |-> msig]
    ELSE IF OwnerIndex(msig, private_key) = 0
    THEN [err |-> "InvalidSecretKeyError", msig |-> msig]
    ELSE [err |-> "None",
          msig |-> [msig EXCEPT
                      !.subsigs[OwnerIndex(msig, private_key)].signature =
                          Signature(txn, private_key)]]

\* the bug: signing is refused when the signers are fewer than the threshold
RECURSIVE MultisigSignFrom_Threshold(_, _, _, _)
MultisigSignFrom_Threshold(txn, msig, signing_accounts, i) ==
    IF Len(signing_accounts) < msig.threshold
    THEN [err |-> "InvalidThresholdError", msig |-> msig]
    ELSE IF i > Len(signing_accounts)
    THEN [err |-> "None", msig |-> msig]
    ELSE LET one == MultisigTransactionSign(txn, msig,
                                            signing_accounts[i].private_key)
         IN IF one.err # "None"
            THEN one
            ELSE MultisigSignFrom_Threshold(txn, one.msig, signing_accounts,
                                            i + 1)

\* _MultisigTxn.sign: each signing account's key in list order, from the
\* i-th on; the first failure ends it with the signatures made so far
RECURSIVE MultisigSignFrom(_, _, _, _)
MultisigSignFrom(txn, msig, signing_accounts, i) ==
    IF i > Len(signing_accounts)
    THEN [err |-> "None", msig |-> msig]
    ELSE LET one == MultisigTransactionSign(txn, msig,
                                            signing_accounts[i].private_key)
         IN IF one.err # "None"
            THEN one
            ELSE MultisigSignFrom(txn, one.msig, signing_accounts, i + 1)

\* the MultisigTransaction object _MultisigTxn.sign returns
MultisigTransaction(ref, mref) ==
    [kind |-> "MultisigTransaction", ref |-> ref, mref |-> mref]

\* the bug: a missing key signs like any other
SignOne_NoKeyCheck(payload, private_key, hp, ms) ==
    IF payload.kind = "_MultisigTxn"
    THEN LET r == MultisigSignFrom(hp[payload.ref], ms[payload.mref],
                                   payload.signing_accounts, 1)
         IN [err |-> r.err,
             out |-> MultisigTransaction(payload.ref, payload.mref),
             ms |-> [ms EXCEPT ![payload.mref] = r.msig]]
    ELSE [err |-> "None",
          out |-> SignedTransaction(hp[payload.ref], private_key),
          ms |-> ms]

\* payload.sign(private_key) of one payload that is no group, on the
\* objects hp (Transactions) and ms (Multisig descriptors)
SignOne(payload, private_key, hp, ms) ==
    IF payload.kind = "_MultisigTxn"
    THEN LET r == MultisigSignFrom(hp[payload.ref], ms[payload.mref],
                                   payload.signing_accounts, 1)
         IN [err |-> r.err,
             out |-> MultisigTransaction(payload.ref, payload.mref),
             ms |-> [ms EXCEPT ![payload.mref] = r.msig]]
    ELSE IF private_key = "None"
    THEN [err |-> "TypeError", out |-> NoneV, ms |-> ms]
    ELSE [err |-> "None",
          out |-> SignedTransaction(hp[payload.ref], private_key),
          ms |-> ms]

\* the bug: every payload is signed with the first pair's signer
RECURSIVE GroupSignFrom_FirstSigner(_, _, _, _, _, _)
GroupSignFrom_FirstSigner(signers, transactions, i, hp, ms, signed_txns) ==
    IF i > Len(transactions)
    THEN [err |-> "None", out |-> signed_txns, ms |-> ms]
    ELSE IF transactions[i].kind = "LogicSigTransaction"
    THEN GroupSignFrom_FirstSigner(signers, transactions, i + 1, hp, ms,
                                   Append(signed_txns, transactions[i]))
    ELSE LET one == SignOne(transactions[i], signers[1].private_key, hp, ms)
         IN IF one.err # "None"
            THEN [err |-> one.err, out |-> signed_txns, ms |-> one.ms]
            ELSE GroupSignFrom_FirstSigner(signers, transactions, i + 1, hp,
                                           one.ms, Append(signed_txns, one.out))

\* _GroupTxn.sign: the pairs in order from the i-th on, a
\* LogicSigTransaction appended as it is, anything else signed with the
\* paired signer's key
RECURSIVE GroupSignFrom(_, _, _, _, _, _)
GroupSignFrom(signers, transactions, i, hp, ms, signed_txns) ==
    IF i > Len(transactions)
    THEN [err |-> "None", out |-> signed_txns, ms |-> ms]
    ELSE IF transactions[i].kind = "LogicSigTransaction"
    THEN GroupSignFrom(signers, transactions, i + 1, hp, ms,
                       Append(signed_txns, transactions[i]))
    ELSE LET one == SignOne(transactions[i], signers[i].private_key, hp, ms)
         IN IF one.err # "None"
            THEN [err |-> one.err, out |-> signed_txns, ms |-> one.ms]
            ELSE GroupSignFrom(signers, transactions, i + 1, hp, one.ms,
                               Append(signed_txns, one.out))

\* txn.sign(signer.private_key) as the pipeline calls it
Sign(payload, private_key, hp, ms) ==
    IF payload.kind = "_GroupTxn"
    THEN LET r == GroupSignFrom(payload.signers, payload.transactions, 1,
                                hp, ms, <<>>)
         IN [err |-> r.err, out |-> [kind |-> "list", items |-> r.out],
             ms |-> r.ms]
    ELSE SignOne(payload, private_key, hp, ms)

\* what goes on the wire for one object handed to send_transactions: the
\* object with the Transactions and descriptors it points to, as they are
RECURSIVE Wire(_, _, _)
Wire(obj, hp, ms) ==
    CASE obj.kind = "Transaction" ->
            [kind |-> "Transaction", transaction |-> hp[obj.ref]]
      [] obj.kind = "LogicSigTransaction" ->
            [kind |-> "LogicSigTransaction", transaction |-> hp[obj.ref],
             lsig |-> obj.lsig]
      [] obj.kind = "MultisigTransaction" ->
            [kind |-> "MultisigTransaction", transaction |-> hp[obj.ref],
             multisig |-> ms[obj.mref]]
      [] obj.kind = "_MultisigTxn" ->
            [kind |-> "_MultisigTxn", transaction |-> hp[obj.ref],
             multisig |-> ms[obj.mref]]
      [] obj.kind = "_GroupTxn" ->
            [kind |-> "_GroupTxn", signers |-> obj.signers,
             transactions |-> [i \in 1..Len(obj.transactions) |->
                                 Wire(obj.transactions[i], hp, ms)]]
      [] OTHER -> obj

WireList(list, hp, ms) == [i \in 1..Len(list) |-> Wire(list[i], hp, ms)]

\* the bug: a LogicSigTransaction or _MultisigTxn is not looked into
flattened_txns_PlainOnly(transactions) ==
    LET plain == SelectSeq(transactions, LAMBDA t : t.kind = "Transaction")
    IN [i \in 1..Len(plain) |-> plain[i].ref]

\* the bug: the Transactions are taken in the order they were made in, not
\* in the order the pairs were passed
flattened_txns_Sorted(transactions) ==
    LET S == {transactions[i].ref : i \in 1..Len(transactions)}
    IN [k \in 1..Len(transactions) |->
          CHOOSE r \in S : Cardinality({x \in S : x <= r}) = k]

\* _GroupTxn.__init__: the Transaction under each payload, in order
flattened_txns(transactions) ==
    [i \in 1..Len(transactions) |-> transactions[i].ref]

\* algosdk calculate_group_id: a hash of the Transactions in order, each
\* as it is now; the hash is taken to be free of collisions
calculate_group_id(refs, hp) ==
    [kind |-> "gid", txids |-> [i \in 1..Len(refs) |-> hp[refs[i]]]]

\* algosdk assign_group_id: every Transaction of the list gets the id
assign_group_id(refs, hp) ==
    [r \in 1..Len(hp) |->
        IF \E i \in 1..Len(refs) : refs[i] = r
        THEN [hp[r] EXCEPT !.group = calculate_group_id(refs, hp)]
        ELSE hp[r]]

----------------------------------------------------------------------------
(* Python values the pipeline hands around *)

IntV(n) == [kind |-> "int", v |-> n]

List(items) == [kind |-> "list", items |-> items]

Tuple(a, b) == [kind |-> "tuple", items |-> <<a, b>>]

----------------------------------------------------------------------------
(* The caller's inputs *)

\* params=... as the caller may pass it
ParamsArgs == {NoneV, CallerParams}

\* the calls of plain operations the caller makes: a payment from an account
\* with a key, with and without params; a payment from the multi-signature
\* account, which has no key; the end of an application and of an asset
PlainCalls ==
    {[op |-> "payment_transaction", sender |-> UserA, target |-> "B",
      params |-> NoneV],
     [op |-> "payment_transaction", sender |-> UserA, target |-> "B",
      params |-> CallerParams],
     [op |-> "payment_transaction", sender |-> MsigUser, target |-> "B",
      params |-> NoneV],
     [op |-> "delete_app", sender |-> UserA, target |-> "1",
      params |-> NoneV],
     [op |-> "destroy_asset", sender |-> UserA, target |-> "1",
      params |-> NoneV]}

\* the unsent pairs the caller keeps for a composite: those of payments it
\* passed no params to
Keeps(c) == c.op = "payment_transaction" /\ c.params = NoneV

\* signing_accounts as the caller may pass it to multisig_transaction: none,
\* fewer owners than the threshold, both owners, an owner and then a stranger
SigningChoices == {<<>>, <<UserA>>, <<UserA, UserB>>, <<UserA, UserC>>}

\* the kinds of payload a wrapper takes as its transaction argument and a
\* group takes as an element
IsPlain(pair) == pair.txn.kind = "Transaction"

Groupable(pair) ==
    pair.txn.kind \in {"Transaction", "LogicSigTransaction", "_MultisigTxn"}

\* the sequences of distinct places of held, in any order
Picks ==
    {p \in UNION {[1..n -> 1..Len(held)] : n \in 1..Len(held)} :
        \A i, j \in DOMAIN p : i # j => p[i] # p[j]}

\* seq without the places in drop, from the i-th on
RECURSIVE Without(_, _, _)
Without(seq, drop, i) ==
    IF i > Len(seq) THEN <<>>
    ELSE IF i \in drop THEN Without(seq, drop, i + 1)
    ELSE <<seq[i]>> \o Without(seq, drop, i + 1)

----------------------------------------------------------------------------
(* Objects nobody refers to any more are gone *)

Refs(payload) ==
    IF payload.kind = "_GroupTxn"
    THEN {payload.transactions[i].ref : i \in DOMAIN payload.transactions}
    ELSE {payload.ref}

Mrefs(payload) ==
    CASE payload.kind = "_MultisigTxn" -> {payload.mref}
      [] payload.kind = "_GroupTxn" ->
            {payload.transactions[i].mref :
                i \in {j \in DOMAIN payload.transactions :
                          payload.transactions[j].kind = "_MultisigTxn"}}
      [] OTHER -> {}

Rank(S, r) == Cardinality({x \in S : x <= r})

Kept(objs, S) ==
    [k \in 1..Cardinality(S) |-> objs[CHOOSE x \in S : Rank(S, x) = k]]

MovedOne(payload, S, MS) ==
    IF payload.kind = "_MultisigTxn"
    THEN [payload EXCEPT !.ref = Rank(S, payload.ref),
                         !.mref = Rank(MS, payload.mref)]
    ELSE [payload EXCEPT !.ref = Rank(S, payload.ref)]

Moved(payload, S, MS) ==
    IF payload.kind = "_GroupTxn"
    THEN [payload EXCEPT !.transactions =
            [i \in DOMAIN payload.transactions |->
                MovedOne(payload.transactions[i], S, MS)]]
    ELSE MovedOne(payload, S, MS)

\* the pairs h with the objects they refer to, and nothing else
Collect(h, hp, ms) ==
    LET S == UNION {Refs(h[i].txn) : i \in DOMAIN h}
        MS == UNION {Mrefs(h[i].txn) : i \in DOMAIN h}
    IN [held |-> [i \in DOMAIN h |->
                    [h[i] EXCEPT !.txn = Moved(h[i].txn, S, MS)]],
        heap |-> Kept(hp, S),
        msigs |-> Kept(ms, MS)]

----------------------------------------------------------------------------
(* The state after import *)

\* class _ConfigParams: the defaults, no environment variable being set
_ConfigParams ==
    [initial_funds_account |-> "None",
     indexer_timeout |-> DefaultIndexerTimeout,
     kmd_wallet_name |-> "unencrypted-default-wallet"]

NoCall ==
    [op |-> "None", outer |-> "None", outer_params |-> NoneV,
     passed |-> NoneV, params |-> NoneV, sender |-> _NullUser,
     target |-> "None", transactions |-> <<>>, signing_accounts |-> <<>>, used |-> {},
     keep |-> FALSE,
     seen |-> <<"None", "None", "None", "None", "None">>,
     f_no_log |-> FALSE, f_no_params |-> FALSE, f_no_send |-> FALSE,
     f_no_sign |-> FALSE, f_with_txn_id |-> FALSE,
     signer |-> _NullUser, txn |-> NoneV, built |-> NoneV,
     output_to_send |-> <<>>, submitted |-> <<>>, txn_id |-> NoneV,
     polls |-> 0, start_round |-> 0, current_round |-> 0,
     args |-> NoneV, algod_round |-> 0, lag |-> 0, timeout |-> 0,
     transaction_response |-> NoneV, ret |-> NoneV,
     status |-> "None"]

Init ==
    /\ _no_log = "None"
    /\ _no_params = "None"
    /\ _no_send = "None"
    /\ _no_sign = "None"
    /\ _with_txn_id = "None"
    /\ stack = <<>>
    /\ pc = "idle"
    /\ call = NoCall
    /\ ev = <<>>
    /\ exc = "None"
    /\ result = NoneV
    /\ lastexit = NoneV
    /\ heap = <<>>
    /\ msigs = <<>>
    /\ held = <<>>
    /\ ConfigParams = _ConfigParams
    /\ lru_cache = NoneV
    /\ threads = [t \in {1, 2} |->
                    [pc |-> "idle", scope |-> FALSE, f_no_log |-> FALSE,
                     f_no_send |-> FALSE, inner |-> "None", outer |-> "None",
                     calls |-> 0, submitted |-> 0]]

----------------------------------------------------------------------------
(* The scopes: TxnElemsContext and TxnIDContext *)

Top == stack[Len(stack)]

\* the bug: __exit__ returns a true value and swallows the exception
ExitReturn_True == TRUE

\* what __exit__ of both context managers returns: None, which is falsy
ExitReturn == FALSE

\* the with statement after __exit__ ran: the block is over, or the
\* exception in flight goes on unless __exit__ returned a true value
AfterExit(returned) ==
    IF exc # "None" /\ ~returned
    THEN UNCHANGED <<pc, exc>>
    ELSE pc' = "done" /\ exc' = "None"

\* with TxnElemsContext(): __enter__
TxnElemsEnter ==
    /\ pc = "idle"
    /\ Len(stack) < MaxDepth
    /\ _no_send' = "True"
    /\ _no_log' = "True"
    /\ stack' = Append(stack, [kind |-> "TxnElemsContext", pre |-> switches])
    /\ UNCHANGED <<_no_params, _no_sign, outside, _with_txn_id, pc, call, ev, exc,
                   result, lastexit, heap, msigs, held>>

\* the bug: __exit__ unsets every switch
TxnElemsExit_ClearsAll ==
    /\ pc \in {"idle", "raise"}
    /\ stack # <<>>
    /\ Top.kind = "TxnElemsContext"
    /\ _no_send' = "None"
    /\ _no_log' = "None"
    /\ _with_txn_id' = "None"
    /\ stack' = SubSeq(stack, 1, Len(stack) - 1)
    /\ lastexit' = [kind |-> Top.kind, pre |-> Top.pre, raised |-> exc]
    /\ AfterExit(ExitReturn)
    /\ UNCHANGED <<_no_params, _no_sign, outside, call, ev, result,
                   heap, msigs, held>>

\* TxnElemsContext.__exit__, when the body is over or an exception leaves it
TxnElemsExit ==
    /\ pc \in {"idle", "raise"}
    /\ stack # <<>>
    /\ Top.kind = "TxnElemsContext"
    /\ _no_send' = "None"
    /\ _no_log' = "None"
    /\ stack' = SubSeq(stack, 1, Len(stack) - 1)
    /\ lastexit' = [kind |-> Top.kind, pre |-> Top.pre, raised |-> exc]
    /\ AfterExit(ExitReturn)
    /\ UNCHANGED <<_no_params, _no_sign, outside, _with_txn_id, call, ev, result,
                   heap, msigs, held>>

\* with TxnIDContext(): __enter__
TxnIDEnter ==
    /\ pc = "idle"
    /\ Len(stack) < MaxDepth
    /\ _with_txn_id' = "True"
    /\ stack' = Append(stack, [kind |-> "TxnIDContext", pre |-> switches])
    /\ UNCHANGED <<_no_log, _no_params, _no_send, _no_sign, outside, pc, call, ev,
                   exc, result, lastexit, heap, msigs, held>>

\* TxnIDContext.__exit__
TxnIDExit ==
    /\ pc \in {"idle", "raise"}
    /\ stack # <<>>
    /\ Top.kind = "TxnIDContext"
    /\ _with_txn_id' = "None"
    /\ stack' = SubSeq(stack, 1, Len(stack) - 1)
    /\ lastexit' = [kind |-> Top.kind, pre |-> Top.pre, raised |-> exc]
    /\ AfterExit(ExitReturn)
    /\ UNCHANGED <<_no_log, _no_params, _no_send, _no_sign, outside, call, ev, result,
                   heap, msigs, held>>

\* the body of a with block raises an exception of its own
BodyRaise ==
    /\ pc = "idle"
    /\ stack # <<>>
    /\ pc' = "raise"
    /\ exc' = "BodyError"
    /\ UNCHANGED <<_no_log, _no_params, _no_send, _no_sign, outside, _with_txn_id,
                   stack, call, ev, result, lastexit, heap, msigs, held>>

\* an exception that left every with block reaches the caller
Reach ==
    /\ pc = "raise"
    /\ stack = <<>>
    /\ pc' = "done"
    /\ result' = [kind |-> "raised", exc |-> exc]
    /\ exc' = "None"
    /\ UNCHANGED <<_no_log, _no_params, _no_send, _no_sign, outside, _with_txn_id,
                   stack, call, ev, lastexit, heap, msigs, held>>

\* the caller goes on: it keeps the unsent pair it was handed if it meant
\* to, and lets go of the pairs it passed to a composite
Resume ==
    /\ pc = "done"
    /\ pc' = "idle"
    /\ LET got == IF call.keep /\ call.status = "returned" /\ call.f_no_send
                     /\ result = call.built
                  THEN <<[signer |-> call.signer, txn |-> call.txn]>>
                  ELSE <<>>
           c == Collect(Without(held, call.used, 1) \o got, heap, msigs)
       IN /\ held' = c.held
          /\ heap' = c.heap
          /\ msigs' = c.msigs
    /\ call' = NoCall
    /\ ev' = <<>>
    /\ result' = NoneV
    /\ lastexit' = NoneV
    /\ UNCHANGED <<_no_log, _no_params, _no_send, _no_sign, outside, _with_txn_id,
                   stack, exc>>

\* the caller lets go of the unsent pairs it kept
Forget ==
    /\ pc = "idle"
    /\ held # <<>>
    /\ held' = <<>>
    /\ heap' = <<>>
    /\ msigs' = <<>>
    /\ UNCHANGED <<_no_log, _no_params, _no_send, _no_sign, outside, _with_txn_id,
                   stack, pc, call, ev, exc, result, lastexit>>

----------------------------------------------------------------------------
(* transaction_boilerplate.wrapped, step by step *)

Event(e) == [e |-> e]

\* the bug: f_no_log is not looked at
Log_Always(trace, f_no_log, line, detail) ==
    Append(trace, [e |-> "log", line |-> line, detail |-> detail])

\* the bug: nothing is ever logged
Log_Never(trace, f_no_log, line, detail) == trace

\* log(...): logger.info, or ignore when f_no_log
Log(trace, f_no_log, line, detail) ==
    IF f_no_log THEN trace
    ELSE Append(trace, [e |-> "log", line |-> line, detail |-> detail])

\* the bug: a builder that raised is called once more
Raise_RetriedOnce(e, trace, ms) ==
    IF e = "BuilderError" /\ \A i \in DOMAIN ev : ev[i].e # "build"
    THEN /\ ev' = trace
         /\ msigs' = ms
         /\ UNCHANGED <<_no_log, _no_params, _no_send, _no_sign, outside,
                        _with_txn_id, stack, pc, call, exc, result, lastexit,
                        heap, held>>
    ELSE /\ pc' = "raise"
         /\ exc' = e
         /\ ev' = trace
         /\ call' = [call EXCEPT !.status = "raised"]
         /\ msigs' = ms
         /\ UNCHANGED <<_no_log, _no_params, _no_send, _no_sign, outside,
                        _with_txn_id, stack, result, lastexit, heap, held>>

\* an exception leaves wrapped: nothing is returned
Raise(e, trace, ms) ==
    /\ pc' = "raise"
    /\ exc' = e
    /\ ev' = trace
    /\ call' = [call EXCEPT !.status = "raised"]
    /\ msigs' = ms
    /\ UNCHANGED <<_no_log, _no_params, _no_send, _no_sign, outside, _with_txn_id,
                   stack, result, lastexit, heap, held>>

\* lines 155-161, the call of a decorated operation: the five switches are
\* resolved
Enter(op, outer, outer_params, params, sender, target, transactions, signing_accounts, used, keep) ==
    /\ pc = "idle"
    /\ pc' = "params"
    /\ call' = [NoCall EXCEPT
                  !.op = op, !.outer = outer, !.outer_params = outer_params,
                  !.passed = params, !.params = params, !.sender = sender,
                  !.target = target,
                  !.transactions = transactions,
                  !.signing_accounts = signing_accounts, !.used = used,
                  !.keep = keep,
                  !.seen = switches,
                  !.f_no_log = Resolve(Declared(op).no_log, _no_log),
                  !.f_no_params = Resolve(Declared(op).no_params, _no_params),
                  !.f_no_send = Resolve(Declared(op).no_send, _no_send),
                  !.f_no_sign = Resolve(Declared(op).no_sign, _no_sign),
                  !.f_with_txn_id =
                      Resolve(Declared(op).with_txn_id, _with_txn_id),
                  !.status = "running"]
    /\ UNCHANGED <<_no_log, _no_params, _no_send, _no_sign, outside, _with_txn_id,
                   stack, ev, exc, result, lastexit, heap, msigs, held>>

\* a plain operation, called directly; the caller keeps the pair it may be
\* handed while it has room for one
CallPlain ==
    \E c \in PlainCalls :
        Enter(c.op, "None", NoneV, c.params, c.sender, c.target, <<>>, <<>>,
              {}, Keeps(c) /\ Len(held) < MaxHeld)

\* create_app, create_compiled_app, create_asset: create_app does not pass
\* its params on to create_compiled_app; the other two pass theirs
CallPublic ==
    \E outer \in PublicWrappers, params \in ParamsArgs :
        Enter(InnerOp(outer), outer, params,
              IF outer = "create_app" THEN NoneV ELSE params,
              UserA, "1", <<>>, <<>>, {}, FALSE)

\* smart_signature_transaction(smart_signature, transaction, params=...)
CallSmartSignature ==
    \E i \in 1..Len(held), params \in ParamsArgs :
        /\ IsPlain(held[i])
        /\ Enter("smart_signature_transaction", "None", NoneV, params,
                 _NullUser, "None", <<held[i]>>, <<>>, {i}, FALSE)

\* multisig_transaction(multisig_account, transaction, signing_accounts)
CallMultisig ==
    \E i \in 1..Len(held), signing_accounts \in SigningChoices :
        /\ IsPlain(held[i])
        /\ Enter("multisig_transaction", "None", NoneV, NoneV, _NullUser,
                 "None", <<held[i]>>, signing_accounts, {i}, FALSE)

\* group_transaction(*transactions)
CallGroup ==
    \E p \in Picks :
        /\ \A i \in DOMAIN p : Groupable(held[p[i]])
        /\ Enter("group_transaction", "None", NoneV, NoneV, _NullUser,
                 "None", [i \in DOMAIN p |-> held[p[i]]], <<>>,
                 {p[i] : i \in DOMAIN p}, FALSE)

\* the bug: params is fetched although the caller passed it
NeedsFetch_Always == ~call.f_no_params

\* lines 174-177: params is fetched when it was not passed and f_no_params
\* is off
NeedsFetch == call.params = NoneV /\ ~call.f_no_params

FetchEvent == [e |-> "fetch", flat_fee |-> TRUE, fee |-> FixedFee]

ParamsStep ==
    /\ pc = "params"
    /\ pc' = "build"
    /\ IF NeedsFetch
       THEN /\ call' = [call EXCEPT !.params = suggested_params(TRUE, FixedFee)]
            /\ ev' = Append(ev, FetchEvent)
       ELSE UNCHANGED <<call, ev>>
    /\ UNCHANGED <<_no_log, _no_params, _no_send, _no_sign, outside, _with_txn_id,
                   stack, exc, result, lastexit, heap, msigs, held>>

\* algod does not answer suggested_params()
ParamsFail ==
    /\ pc = "params"
    /\ NeedsFetch
    /\ Raise("AlgodHTTPError", Append(ev, FetchEvent), msigs)

\* the bug: the account keeps one Multisig object and hands it out again
Descriptor_Cached(ms, account) ==
    IF ms = <<>>
    THEN [mref |-> 1, msigs |-> <<attributes(account)>>]
    ELSE [mref |-> 1, msigs |-> ms]

\* multisig_account.attributes as _MultisigTxn.__init__ reads it: a Multisig
\* object that did not exist before, its place among the objects ms
Descriptor(ms, account) ==
    [mref |-> Len(ms) + 1, msigs |-> Append(ms, attributes(account))]

\* func(*args, **kwargs): the (signer, txn) pair of each builder, with the
\* objects as the builder leaves them
Builder ==
    CASE call.op \in PlainOps ->
            [signer |-> call.sender,
             txn |-> PlainTxn(Len(heap) + 1),
             heap |-> Append(heap, Transaction(TxnType(call.op),
                                               call.sender.address,
                                               call.params, call.target)),
             msigs |-> msigs]
      [] call.op = "smart_signature_transaction" ->
            [signer |-> _NullUser,
             txn |-> LogicSigTransaction(call.transactions[1].txn.ref, "lsig"),
             heap |-> heap, msigs |-> msigs]
      [] call.op = "multisig_transaction" ->
            LET d == Descriptor(msigs, MsigAccount)
            IN [signer |-> _NullUser,
                txn |-> _MultisigTxn(call.transactions[1].txn.ref,
                                     call.signing_accounts, d.mref),
                heap |-> heap,
                msigs |-> d.msigs]
      [] call.op = "group_transaction" ->
            LET signers == [i \in DOMAIN call.transactions |->
                              call.transactions[i].signer]
                transactions == [i \in DOMAIN call.transactions |->
                                   call.transactions[i].txn]
            IN [signer |-> _NullUser,
                txn |-> _GroupTxn(signers, transactions),
                heap |-> assign_group_id(flattened_txns(transactions), heap),
                msigs |-> msigs]

BuildEvent == [e |-> "build", params |-> call.params]

\* the bug: defer_send is not looked at
Deferred_Never == FALSE

\* lines 184-186: if f_no_send: return signer, txn
Deferred == call.f_no_send

\* lines 179-186: the running line, the builder and, when f_no_send, the
\* return of its pair
BuildStep ==
    /\ pc = "build"
    /\ LET b == Builder
           pair == Tuple(b.signer, b.txn)
           trace == Append(Log(ev, call.f_no_log, "Running", NoneV),
                           BuildEvent)
       IN /\ heap' = b.heap
          /\ msigs' = b.msigs
          /\ IF Deferred
             THEN /\ call' = [call EXCEPT !.signer = b.signer, !.txn = b.txn,
                                          !.built = pair, !.ret = pair,
                                          !.status = "returned"]
                  /\ ev' = Append(trace, Event("return"))
                  /\ result' = pair
                  /\ pc' = IF call.outer = "None" THEN "done" ELSE "wrap"
             ELSE /\ call' = [call EXCEPT !.signer = b.signer, !.txn = b.txn,
                                          !.built = pair]
                  /\ ev' = trace
                  /\ pc' = "sign"
                  /\ UNCHANGED result
    /\ UNCHANGED <<_no_log, _no_params, _no_send, _no_sign, outside, _with_txn_id,
                   stack, exc, lastexit, held>>

\* the builder raises
BuildFail ==
    /\ pc = "build"
    /\ Raise("BuilderError",
             Append(Log(ev, call.f_no_log, "Running", NoneV), BuildEvent),
             msigs)

\* the bug: sign is invoked whatever defer_sign says
Submittable_AlwaysSign(f_no_sign, txn, private_key, hp, ms) ==
    LET r == Sign(txn, private_key, hp, ms)
    IN [err |-> r.err, out |-> r.out, ms |-> r.ms, signed |-> TRUE]

\* lines 188-193: the payload as it is when f_no_sign, else what
\* txn.sign(signer.private_key) makes of it
Submittable(f_no_sign, txn, private_key, hp, ms) ==
    IF f_no_sign
    THEN [err |-> "None", out |-> txn, ms |-> ms, signed |-> FALSE]
    ELSE LET r == Sign(txn, private_key, hp, ms)
         IN [err |-> r.err, out |-> r.out, ms |-> r.ms, signed |-> TRUE]

SignEvent == [e |-> "sign", key |-> call.signer.private_key]

\* the bug: of a list only the first element is sent
Normalize_FirstOnly(output_to_send) ==
    IF output_to_send.kind # "list" THEN List(<<output_to_send>>)
    ELSE List(<<output_to_send.items[1]>>)

\* the bug: what sign returned is put in a list although it is one
Normalize_AlwaysWrap(output_to_send) == List(<<output_to_send>>)

\* lines 195-198: a list is sent as it is, anything else in a list of one
Normalize(output_to_send) ==
    IF output_to_send.kind # "list" THEN List(<<output_to_send>>)
    ELSE output_to_send

SignStep ==
    /\ pc = "sign"
    /\ LET r == Submittable(call.f_no_sign, call.txn, call.signer.private_key,
                            heap, msigs)
       IN /\ ev' = IF r.signed THEN Append(ev, SignEvent) ELSE ev
          /\ msigs' = r.ms
          /\ IF r.err # "None"
             THEN /\ pc' = "raise"
                  /\ exc' = r.err
                  /\ call' = [call EXCEPT !.status = "raised"]
             ELSE /\ pc' = "submit"
                  /\ exc' = exc
                  /\ call' = [call EXCEPT
                                !.output_to_send = Normalize(r.out).items]
    /\ UNCHANGED <<_no_log, _no_params, _no_send, _no_sign, outside, _with_txn_id,
                   stack, result, lastexit, heap, held>>

\* the id algod gives a submission: that of its first transaction
TxId(wire) == [kind |-> "txid", of |-> wire[1]]

SubmitEvent ==
    [e |-> "submit", list |-> WireList(call.output_to_send, heap, msigs)]

\* process_transactions: client.send_transactions(transactions) answers
SubmitStep ==
    /\ pc = "submit"
    /\ pc' = "wait"
    /\ ev' = Append(ev, SubmitEvent)
    /\ call' = [call EXCEPT !.submitted = SubmitEvent.list,
                            !.txn_id = TxId(SubmitEvent.list)]
    /\ UNCHANGED <<_no_log, _no_params, _no_send, _no_sign, outside, _with_txn_id,
                   stack, exc, result, lastexit, heap, msigs, held>>

\* client.send_transactions(transactions) raises
SubmitFail ==
    /\ pc = "submit"
    /\ Raise("AlgodHTTPError", Append(ev, SubmitEvent), msigs)

\* process_transactions: wait_for_confirmation(client, transaction_id, 4),
\* one status query a round
PollEvent == [e |-> "poll", n |-> call.polls + 1]

PollConfirmed ==
    /\ pc = "wait"
    /\ call.polls < RoundBudget
    /\ pc' = "info"
    /\ ev' = Append(ev, PollEvent)
    /\ call' = [call EXCEPT !.polls = call.polls + 1]
    /\ UNCHANGED <<_no_log, _no_params, _no_send, _no_sign, outside, _with_txn_id,
                   stack, exc, result, lastexit, heap, msigs, held>>

PollPending ==
    /\ pc = "wait"
    /\ call.polls < RoundBudget
    /\ ev' = Append(ev, PollEvent)
    /\ call' = [call EXCEPT !.polls = call.polls + 1]
    /\ UNCHANGED <<_no_log, _no_params, _no_send, _no_sign, outside, _with_txn_id,
                   stack, pc, exc, result, lastexit, heap, msigs, held>>

PollRejected ==
    /\ pc = "wait"
    /\ call.polls < RoundBudget
    /\ Raise("TransactionRejectedError", Append(ev, PollEvent), msigs)

PollTimeout ==
    /\ pc = "wait"
    /\ call.polls = RoundBudget
    /\ Raise("ConfirmationTimeoutError", ev, msigs)

\* the index algod gives what a confirmed transaction created: one for an
\* application or an asset made, none for anything else
Created(wire) ==
    IF wire.kind = "SignedTransaction"
       /\ wire.transaction.type \in {"appl-create", "acfg-create"}
    THEN {1, 2} ELSE {0}

\* client_ops.pending_transaction_info(txn_id) answers
InfoStep ==
    /\ pc = "info"
    /\ \E created \in Created(call.submitted[1]) :
          call' = [call EXCEPT !.transaction_response =
                      [kind |-> "dict", txid |-> call.txn_id,
                       created |-> created, txn |-> call.submitted[1]]]
    /\ pc' = "finish"
    /\ ev' = Append(ev, Event("info"))
    /\ UNCHANGED <<_no_log, _no_params, _no_send, _no_sign, outside, _with_txn_id,
                   stack, exc, result, lastexit, heap, msigs, held>>

\* client_ops.pending_transaction_info(txn_id) raises
InfoFail ==
    /\ pc = "info"
    /\ Raise("AlgodHTTPError", Append(ev, Event("info")), msigs)

\* the field of the response a format_finish or return_fn lambda reads
Field(txninfo, name) ==
    CASE name \in {"application-index", "asset-index"} -> IntV(txninfo.created)
      [] name \in {"apid", "caid"} ->
            [kind |-> "str", v |-> txninfo.txn.transaction.target]

\* format_finish(transaction_response), when there is one
format_finish(op, txninfo) ==
    IF Declared(op).format_finish = "None" THEN NoneV
    ELSE [kind |-> "formatted", name |-> Declared(op).format_finish,
          value |-> Field(txninfo, Declared(op).format_finish)]

\* the bug: without a return_fn the response itself is the result
return_fn_Response(op, txninfo) ==
    IF Declared(op).return_fn = "None" THEN txninfo
    ELSE Field(txninfo, Declared(op).return_fn)

\* ret = return_fn(transaction_response) if return_fn is not None else None
return_fn(op, txninfo) ==
    IF Declared(op).return_fn = "None" THEN NoneV
    ELSE Field(txninfo, Declared(op).return_fn)

\* the bug: the id is never returned
Returned_Bare(f_with_txn_id, txn_id, ret) == ret

\* lines 215-219: what wrapped returns for a sent call
Returned(f_with_txn_id, txn_id, ret) ==
    IF f_with_txn_id THEN Tuple(txn_id, ret) ELSE ret

\* lines 206-219: the finish line, the result and the return
FinishStep ==
    /\ pc = "finish"
    /\ LET ret == return_fn(call.op, call.transaction_response)
           out == Returned(call.f_with_txn_id, call.txn_id, ret)
       IN /\ call' = [call EXCEPT !.ret = out, !.status = "returned"]
          /\ result' = out
          /\ ev' = Append(Append(Log(ev, call.f_no_log, "Finished",
                                     format_finish(call.op,
                                                   call.transaction_response)),
                                 [e |-> "extract", ret |-> ret]),
                          Event("return"))
    /\ pc' = IF call.outer = "None" THEN "done" ELSE "wrap"
    /\ UNCHANGED <<_no_log, _no_params, _no_send, _no_sign, outside, _with_txn_id,
                   stack, exc, lastexit, heap, msigs, held>>

\* DeployedAppID.__new__ / DeployedAssetID.__new__: int.__new__(cls, value)
\* takes a number and raises TypeError on a tuple
Deployed(outer, value, owner) ==
    IF value.kind = "int"
    THEN [err |-> "None",
          value |-> [kind |-> IF outer = "create_asset"
                              THEN "DeployedAssetID" ELSE "DeployedAppID",
                     v |-> value.v, owner |-> owner]]
    ELSE [err |-> "TypeError", value |-> NoneV]

\* create_compiled_app / create_asset after the pipeline call returned:
\* return DeployedAppID(app_id, owner)
WrapStep ==
    /\ pc = "wrap"
    /\ LET d == Deployed(call.outer, call.ret, call.sender)
       IN IF d.err = "None"
          THEN /\ pc' = "done"
               /\ result' = d.value
               /\ exc' = exc
          ELSE /\ pc' = "raise"
               /\ exc' = d.err
               /\ result' = NoneV
    /\ UNCHANGED <<_no_log, _no_params, _no_send, _no_sign, outside, _with_txn_id,
                   stack, call, ev, lastexit, heap, msigs, held>>

----------------------------------------------------------------------------
Next ==
    \/ TxnElemsEnter
    \/ TxnElemsExit
    \/ TxnIDEnter
    \/ TxnIDExit
    \/ BodyRaise
    \/ Reach
    \/ Resume
    \/ Forget
    \/ CallPlain
    \/ CallPublic
    \/ CallSmartSignature
    \/ CallMultisig
    \/ CallGroup
    \/ ParamsStep
    \/ ParamsFail
    \/ BuildStep
    \/ BuildFail
    \/ SignStep
    \/ SubmitStep
    \/ SubmitFail
    \/ PollConfirmed
    \/ PollPending
    \/ PollRejected
    \/ PollTimeout
    \/ InfoStep
    \/ InfoFail
    \/ FinishStep
    \/ WrapStep

Spec == Init /\ [][Next]_vars

----------------------------------------------------------------------------
(* What a call did, read off its trace *)

Events(name) == {i \in DOMAIN ev : ev[i].e = name}

Count(name) == Cardinality(Events(name))

Happened(name) == Events(name) # {}

InCall == call.status # "None"

----------------------------------------------------------------------------
(* C1: in every call of a decorated operation each of the five switches    *)
(* has the value of its process-wide override when the override is set,    *)
(* and the operation's declared default when the override is None.  The    *)
(* overrides are those read when the call began (call.seen).               *)

C1_Effective(declared, override) ==
    \/ override = "None" /\ declared
    \/ override = "True"

C1_SwitchResolution ==
    InCall =>
        /\ call.f_no_log
              = C1_Effective(Declared(call.op).no_log, call.seen[1])
        /\ call.f_no_params
              = C1_Effective(Declared(call.op).no_params, call.seen[2])
        /\ call.f_no_send
              = C1_Effective(Declared(call.op).no_send, call.seen[3])
        /\ call.f_no_sign
              = C1_Effective(Declared(call.op).no_sign, call.seen[4])
        /\ call.f_with_txn_id
              = C1_Effective(Declared(call.op).with_txn_id, call.seen[5])

\* a call whose override of no_send is set against a declared default of
\* False, and one whose declared no_sign stands because nothing overrides it
C1_Witness ==
    /\ InCall
    /\ call.seen[3] = "True" /\ ~Declared(call.op).no_send /\ call.f_no_send
    /\ call.seen[4] = "None" /\ Declared(call.op).no_sign /\ call.f_no_sign

----------------------------------------------------------------------------
(* C2: when a TxnElemsContext or TxnIDContext that was entered with its    *)
(* own switches unset is left, those switches are unset again, whether the *)
(* body ended or raised; an exception of the body is still in flight after *)
(* __exit__ and is what the caller gets.                                   *)

C2_OwnUnset(frame) ==
    IF frame.kind = "TxnElemsContext"
    THEN frame.pre[1] = "None" /\ frame.pre[3] = "None"
    ELSE frame.pre[5] = "None"

C2_ScopeRelease ==
    [][/\ (Len(stack') < Len(stack) /\ C2_OwnUnset(Top)) =>
            /\ Top.kind = "TxnElemsContext" =>
                  _no_send' = "None" /\ _no_log' = "None"
            /\ Top.kind = "TxnIDContext" => _with_txn_id' = "None"
            /\ exc # "None" => exc' = exc /\ pc' = "raise"
            /\ exc = "None" => exc' = "None" /\ pc' = "done"
       /\ (pc = "raise" /\ pc' # "raise") =>
            result' = [kind |-> "raised", exc |-> exc] /\ stack = <<>>
      ]_vars

\* a TxnElemsContext entered with its switches unset was left by an
\* exception, and the caller got that exception
C2_Witness ==
    /\ pc = "done"
    /\ lastexit # NoneV
    /\ lastexit.kind = "TxnElemsContext"
    /\ lastexit.raised # "None"
    /\ lastexit.pre[1] = "None" /\ lastexit.pre[3] = "None"
    /\ _no_send = "None" /\ _no_log = "None"
    /\ result = [kind |-> "raised", exc |-> lastexit.raised]

----------------------------------------------------------------------------
(* C3: at any point inside a TxnElemsContext the switches it sets are      *)
(* active, and inside a TxnIDContext the one it sets is: leaving an inner  *)
(* scope of the same kind gives the outer scope its value back.            *)

C3_OuterStillActive ==
    \A i \in DOMAIN stack :
        /\ stack[i].kind = "TxnElemsContext" =>
              _no_send = "True" /\ _no_log = "True"
        /\ stack[i].kind = "TxnIDContext" => _with_txn_id = "True"

----------------------------------------------------------------------------
(* C4: a call that rules parameter injection in makes exactly one          *)
(* suggested-params fetch, flat fee on and fee 1000, when no params were   *)
(* passed, and its builder gets what was fetched; with params passed it    *)
(* makes no fetch and its builder gets those; a call that rules injection  *)
(* out (group_transaction, multisig_transaction) makes no fetch.           *)

C4_Fetched ==
    [kind |-> "SuggestedParams", src |-> "algod", flat_fee |-> TRUE,
     fee |-> 1000]

C4_ParamInjection ==
    InCall =>
        /\ call.f_no_params => Count("fetch") = 0
        /\ call.passed # NoneV => Count("fetch") = 0
        /\ call.op \in {"group_transaction", "multisig_transaction"}
              => call.f_no_params
        /\ \A i \in Events("fetch") : ev[i].flat_fee /\ ev[i].fee = 1000
        /\ \A i \in Events("build") :
              /\ (~call.f_no_params /\ call.passed = NoneV) =>
                    /\ Count("fetch") = 1
                    /\ ev[i].params = C4_Fetched
              /\ call.passed # NoneV => ev[i].params = call.passed
              /\ call.f_no_params => ev[i].params = call.passed

\* a payment called without params was built with the fetched ones, and a
\* group was built without a fetch
C4_Witness ==
    /\ InCall
    /\ Happened("build")
    /\ call.op = "payment_transaction"
    /\ call.passed = NoneV
    /\ Count("fetch") = 1
    /\ heap[call.txn.ref].params = C4_Fetched
    /\ pc = "sign"

----------------------------------------------------------------------------
(* C5: create_app called with params sends the application-create          *)
(* transaction built with exactly those params and makes no                *)
(* suggested-params fetch.                                                 *)

C5_CreateAppUsesParams ==
    (/\ InCall
     /\ call.outer = "create_app"
     /\ call.outer_params # NoneV
     /\ Happened("submit")) =>
        /\ Count("fetch") = 0
        /\ call.submitted[1].transaction.params = call.outer_params

----------------------------------------------------------------------------
(* C6: a call for which defer_send is effective signs nothing, submits     *)
(* nothing, polls nothing, fetches no confirmed record, extracts no result *)
(* and logs no finish line; what it returns is the (signer, payload) pair  *)
(* its builder produced, and the return follows the builder at once.       *)

C6_DeferredSend ==
    (InCall /\ call.f_no_send) =>
        /\ \A name \in {"sign", "submit", "poll", "info", "extract"} :
              ~Happened(name)
        /\ \A i \in Events("log") : ev[i].line # "Finished"
        /\ call.submitted = <<>>
        /\ call.status = "returned" =>
              /\ call.ret = [kind |-> "tuple",
                             items |-> <<call.signer, call.txn>>]
              /\ call.ret = call.built
              /\ Len(ev) >= 2
              /\ ev[Len(ev)].e = "return"
              /\ ev[Len(ev) - 1].e = "build"

\* a payment made inside a TxnElemsContext returned its pair
C6_Witness ==
    /\ InCall
    /\ call.f_no_send
    /\ call.status = "returned"
    /\ call.op = "payment_transaction"
    /\ result = [kind |-> "tuple",
                 items |-> <<UserA, [kind |-> "Transaction",
                                     ref |-> call.txn.ref]>>]

----------------------------------------------------------------------------
(* C7: any public operation that returns inside a TxnElemsContext hands    *)
(* its caller an unsent transaction object, the builder's pair, and has    *)
(* sent nothing; create_app, create_compiled_app and create_asset are      *)
(* among these operations.                                                 *)

C7_UnsentInsideTxnElems ==
    (/\ pc \in {"done", "raise"}
     /\ call.status = "returned"
     /\ call.seen[3] = "True") =>
        /\ pc = "done"
        /\ result = call.built
        /\ ~Happened("submit")

----------------------------------------------------------------------------
(* C8: any public operation that is sent and confirmed inside a            *)
(* TxnIDContext hands its caller the pair of the sent transaction's id and *)
(* what the same call returns outside the scope; create_app,               *)
(* create_compiled_app and create_asset are among these operations.        *)

C8_Usual ==
    LET ret == return_fn(call.op, call.transaction_response)
    IN IF call.outer = "None" THEN ret
       ELSE Deployed(call.outer, ret, call.sender).value

C8_PairInsideTxnID ==
    (/\ pc \in {"done", "raise"}
     /\ call.status = "returned"
     /\ call.seen[5] = "True"
     /\ ~call.f_no_send) =>
        /\ pc = "done"
        /\ result = [kind |-> "tuple", items |-> <<call.txn_id, C8_Usual>>]

----------------------------------------------------------------------------
(* C9: a call that was sent and returned extracted return_fn of the        *)
(* confirmed record when the operation has a return_fn, and None when it   *)
(* has none; it returned the pair (txn_id, extracted) when with_txn_id was *)
(* effective and extracted alone otherwise, txn_id being the id the one    *)
(* submission of this call returned.                                       *)

C9_Extracted ==
    IF Declared(call.op).return_fn = "None" THEN NoneV
    ELSE [kind |-> "int", v |-> call.transaction_response.created]

C9_SentReturn ==
    (InCall /\ call.status = "returned" /\ ~call.f_no_send) =>
        /\ Count("submit") = 1
        /\ Count("extract") = 1
        /\ \A i \in Events("extract") : ev[i].ret = C9_Extracted
        /\ \A i \in Events("submit") :
              call.ret = IF call.f_with_txn_id
                         THEN [kind |-> "tuple",
                               items |-> <<[kind |-> "txid",
                                            of |-> ev[i].list[1]],
                                           C9_Extracted>>]
                         ELSE C9_Extracted

\* an asset was created inside a TxnIDContext: the pipeline call returned
\* the id of its submission with the asset's index
C9_Witness ==
    /\ InCall
    /\ call.status = "returned"
    /\ ~call.f_no_send
    /\ call.f_with_txn_id
    /\ call.op = "_create_asset"
    /\ call.ret.kind = "tuple"
    /\ call.ret.items[1] = call.txn_id
    /\ call.ret.items[2] = [kind |-> "int", v |-> 2]

----------------------------------------------------------------------------
(* C10: a call for which defer_sign is effective never invokes sign, and   *)
(* what it submits is the payload of its builder as it is: the             *)
(* LogicSigTransaction of smart_signature_transaction goes out without the *)
(* key the placeholder signer does not have.  A call for which defer_sign  *)
(* is not effective invokes sign once, with the private key of its signer, *)
(* and submits what sign returned.                                         *)

C10_Signing ==
    InCall =>
        /\ call.f_no_sign =>
              /\ ~Happened("sign")
              /\ \A i \in Events("submit") :
                    /\ call.op = "smart_signature_transaction"
                    /\ call.signer = [address |-> "", private_key |-> "None"]
                    /\ ev[i].list =
                          <<[kind |-> "LogicSigTransaction",
                             transaction |-> heap[call.txn.ref],
                             lsig |-> call.txn.lsig]>>
        /\ (~call.f_no_sign /\ Happened("submit")) =>
              /\ Count("sign") = 1
              /\ \A i \in Events("sign") :
                    ev[i].key = call.signer.private_key
              /\ \A i \in Events("submit") :
                    /\ \A j \in Events("sign") : j < i
                    /\ call.op \in PlainOps =>
                          ev[i].list =
                             <<[kind |-> "SignedTransaction",
                                transaction |-> heap[call.txn.ref],
                                key |-> call.signer.private_key]>>
                    /\ call.op = "multisig_transaction" =>
                          /\ Len(ev[i].list) = 1
                          /\ ev[i].list[1].kind = "MultisigTransaction"
                    /\ call.op = "group_transaction" =>
                          \A k \in DOMAIN ev[i].list :
                              ev[i].list[k].kind
                                 \in {"SignedTransaction",
                                      "MultisigTransaction"}

\* a smart-signature transaction was submitted unsigned
C10_Witness ==
    /\ InCall
    /\ call.f_no_sign
    /\ call.op = "smart_signature_transaction"
    /\ Happened("submit")
    /\ call.submitted[1].kind = "LogicSigTransaction"
    /\ ~Happened("sign")

----------------------------------------------------------------------------
(* A caller that builds composites out of the pairs it keeps                *)
(*                                                                         *)
(* The caller of Spec lets go of a pair once it passed it to a composite.  *)
(* This caller asks for its pairs inside one TxnElemsContext, keeps the    *)
(* pairs of the wrappers it is handed there, and groups what it keeps.      *)
(* algod answers every call; it may still reject what was submitted.       *)

\* the payments this caller makes: two of accounts with a key, one of the
\* multi-signature account
GroupCalls ==
    {[op |-> "payment_transaction", sender |-> UserA, target |-> "B",
      params |-> NoneV],
     [op |-> "payment_transaction", sender |-> UserB, target |-> "C",
      params |-> NoneV],
     [op |-> "payment_transaction", sender |-> MsigUser, target |-> "C",
      params |-> NoneV]}

\* signing_accounts as this caller passes it
GroupSigningChoices == {<<UserA>>, <<UserA, UserB>>}

\* with TxnElemsContext(): at the top level of the script
OpenScope == stack = <<>> /\ TxnElemsEnter

KeepPayment ==
    /\ stack # <<>>
    /\ \E c \in GroupCalls :
          Enter(c.op, "None", NoneV, c.params, c.sender, c.target, <<>>, <<>>,
                {}, Len(held) < MaxHeld)

KeepSmartSignature ==
    /\ stack # <<>>
    /\ \E i \in 1..Len(held) :
          /\ IsPlain(held[i])
          /\ Enter("smart_signature_transaction", "None", NoneV, NoneV,
                   _NullUser, "None", <<held[i]>>, <<>>, {i}, TRUE)

KeepMultisig ==
    /\ stack # <<>>
    /\ \E i \in 1..Len(held), signing_accounts \in GroupSigningChoices :
          /\ IsPlain(held[i])
          /\ Enter("multisig_transaction", "None", NoneV, NoneV, _NullUser,
                   "None", <<held[i]>>, signing_accounts, {i}, TRUE)

\* group_transaction(*transactions) over pairs the caller kept, which it
\* lets go of
GroupKept ==
    \E p \in Picks :
        /\ \A i \in DOMAIN p : Groupable(held[p[i]])
        /\ Enter("group_transaction", "None", NoneV, NoneV, _NullUser,
                 "None", [i \in DOMAIN p |-> held[p[i]]], <<>>,
                 {p[i] : i \in DOMAIN p}, FALSE)

NextGroup ==
    \/ OpenScope
    \/ TxnElemsExit
    \/ Resume
    \/ Forget
    \/ KeepPayment
    \/ KeepSmartSignature
    \/ KeepMultisig
    \/ GroupKept
    \/ ParamsStep
    \/ BuildStep
    \/ SignStep
    \/ SubmitStep
    \/ PollConfirmed
    \/ PollRejected
    \/ InfoStep
    \/ FinishStep
    \/ Reach

SpecGroup == Init /\ [][NextGroup]_vars

----------------------------------------------------------------------------
(* A caller that groups the same pairs more than once                      *)

\* how many group constructions a Transaction has been through
RECURSIVE Tagged(_)
Tagged(txn) ==
    IF txn.group = NoGroup THEN 0
    ELSE LET of == txn.group.txids
             deepest == CHOOSE i \in DOMAIN of :
                            \A j \in DOMAIN of : Tagged(of[j]) <= Tagged(of[i])
         IN 1 + Tagged(of[deepest])

\* group_transaction(*transactions) over pairs the caller holds on to
Regroup ==
    \E p \in Picks :
        /\ \A i \in DOMAIN p : Groupable(held[p[i]])
        /\ \A i \in DOMAIN p : Tagged(heap[held[p[i]].txn.ref]) < MaxTag
        /\ Enter("group_transaction", "None", NoneV, NoneV, _NullUser,
                 "None", [i \in DOMAIN p |-> held[p[i]]], <<>>, {}, FALSE)

NextRegroup ==
    \/ OpenScope
    \/ TxnElemsExit
    \/ Resume
    \/ Forget
    \/ KeepPayment
    \/ Regroup
    \/ ParamsStep
    \/ BuildStep
    \/ SignStep
    \/ SubmitStep
    \/ PollConfirmed
    \/ PollRejected
    \/ InfoStep
    \/ FinishStep
    \/ Reach

SpecRegroup == Init /\ [][NextRegroup]_vars

----------------------------------------------------------------------------
(* What a group call was given, pair by pair *)

IsGroupCall == InCall /\ call.op = "group_transaction"

PairSigner(i) == call.transactions[i].signer

PairTxn(i) == call.transactions[i].txn

\* what the i-th pair of the group call is on the wire once it is signed
C11_Submittable(i) ==
    CASE PairTxn(i).kind = "Transaction" ->
            [kind |-> "SignedTransaction",
             transaction |-> heap[PairTxn(i).ref],
             key |-> PairSigner(i).private_key]
      [] PairTxn(i).kind = "LogicSigTransaction" ->
            [kind |-> "LogicSigTransaction",
             transaction |-> heap[PairTxn(i).ref],
             lsig |-> PairTxn(i).lsig]
      [] PairTxn(i).kind = "_MultisigTxn" ->
            [kind |-> "MultisigTransaction",
             transaction |-> heap[PairTxn(i).ref],
             multisig |-> msigs[PairTxn(i).mref]]

(* C11: a group call over N kept pairs that is not deferred submits at     *)
(* most once, and once when it returns; what it submits is one list of N   *)
(* elements, the i-th being the i-th pair of the caller in its submittable *)
(* form, made with the signer of that pair.                                *)

C11_OneSubmission ==
    (IsGroupCall /\ ~call.f_no_send) =>
        /\ Count("submit") <= 1
        /\ call.status = "returned" => Count("submit") = 1
        /\ \A e \in Events("submit") :
              /\ Len(ev[e].list) = Len(call.transactions)
              /\ \A i \in DOMAIN call.transactions :
                    ev[e].list[i] = C11_Submittable(i)

\* a group of two payments of two accounts was sent and confirmed
C11_Witness ==
    /\ IsGroupCall
    /\ call.status = "returned"
    /\ ~call.f_no_send
    /\ Len(call.transactions) = 2
    /\ PairSigner(1).private_key = "skB"
    /\ PairSigner(2).private_key = "skA"
    /\ call.submitted[1].key = "skB"
    /\ call.submitted[2].key = "skA"
    /\ call.submitted[1].transaction.group # NoGroup
    /\ call.submitted[1].transaction.group
          = call.submitted[2].transaction.group

----------------------------------------------------------------------------
(* C12 *)

\* the orders the pairs of the running group call could have been passed in
C12_Orders ==
    {p \in [DOMAIN call.transactions -> DOMAIN call.transactions] :
        \A i, j \in DOMAIN p : i # j => p[i] # p[j]}

\* the payloads of the running group call, passed in the order p
C12_Payloads(p) == [k \in DOMAIN p |-> PairTxn(p[k])]

\* the Transactions under them as they are before the construction
C12_Contents(p) == [k \in DOMAIN p |-> heap[PairTxn(p[k]).ref]]

C12_Same == [i \in DOMAIN call.transactions |-> i]

\* the step in which group_transaction builds its _GroupTxn
C12_GroupBuild ==
    pc = "build" /\ call.op = "group_transaction" /\ pc' # "raise"

(* C12: the construction of a group gives the Transaction under every one of
   its N payloads one and the same group id; the id is that of the
   Transactions' contents in the order the pairs were passed, so deriving it
   again from the same contents in the same order gives the same id, and
   deriving it from the same pairs in an order that changes the list of
   contents gives another id. *)
C12_GroupId ==
    [][C12_GroupBuild =>
        LET gid == calculate_group_id(
                       flattened_txns(C12_Payloads(C12_Same)), heap)
        IN /\ \A i \in DOMAIN call.transactions :
                 heap'[PairTxn(i).ref].group = gid
           /\ gid.txids = C12_Contents(C12_Same)
           /\ \A p \in C12_Orders :
                 LET other == calculate_group_id(
                                  flattened_txns(C12_Payloads(p)), heap)
                 IN IF C12_Contents(p) = C12_Contents(C12_Same)
                    THEN other = gid
                    ELSE other # gid]_vars

\* a group of two payments of different content, passed in the order
\* opposite to the one they were built in, has been tagged
C12_Witness ==
    /\ IsGroupCall
    /\ call.built # NoneV
    /\ Len(call.transactions) = 2
    /\ PairTxn(1).ref > PairTxn(2).ref
    /\ heap[PairTxn(1).ref].sender # heap[PairTxn(2).ref].sender
    /\ heap[PairTxn(1).ref].group # NoGroup
    /\ heap[PairTxn(1).ref].group = heap[PairTxn(2).ref].group
    /\ heap[PairTxn(1).ref].group.txids[1].sender = heap[PairTxn(1).ref].sender

----------------------------------------------------------------------------
(* C13 *)

(* C13: the assignment of a group id is one-time: a Transaction that one
   group construction has tagged is never tagged again, in the same or in
   another order, by a later group construction over the same pairs; so no
   Transaction carries a group id that was derived from Transactions that
   already carried one. *)
C13_TaggedOnce == \A r \in DOMAIN heap : Tagged(heap[r]) <= 1

----------------------------------------------------------------------------
(* C14 *)

\* _GroupTxn.sign of the running group call has returned
C14_Signed == IsGroupCall /\ call.output_to_send # <<>>

\* the addresses of the accounts a multi-signature payload is signed by
C14_SigningAddresses(payload) ==
    {payload.signing_accounts[k].address : k \in DOMAIN payload.signing_accounts}

\* the descriptor ms carries the signatures of exactly the accounts in
\* signing, each over the Transaction txn
C14_SignedBy(ms, signing, txn) ==
    \A k \in DOMAIN ms.subsigs :
        ms.subsigs[k].signature =
            IF ms.subsigs[k].public_key \in signing
            THEN [kind |-> "Signature", over |-> txn,
                  key |-> CHOOSE key \in {"skA", "skB", "skC"} :
                              PublicKey(key) = ms.subsigs[k].public_key]
            ELSE NoneV

(* C14: _GroupTxn.sign goes through the pairs in the order they were given
   to the construction and returns one item per pair, in that order: a
   LogicSigTransaction is the item as it is; a Transaction is signed with the
   key of the signer it is paired with; a _MultisigTxn is signed by its own
   signing accounts, whatever the (placeholder) signer it is paired with. *)
C14_GroupSign ==
    C14_Signed =>
        /\ Len(call.output_to_send) = Len(call.transactions)
        /\ \A i \in DOMAIN call.transactions :
              LET item == call.output_to_send[i]
                  txn == PairTxn(i)
              IN CASE txn.kind = "LogicSigTransaction" -> item = txn
                   [] txn.kind = "Transaction" ->
                        /\ item.kind = "SignedTransaction"
                        /\ item.transaction = heap[txn.ref]
                        /\ item.key = PairSigner(i).private_key
                   [] txn.kind = "_MultisigTxn" ->
                        /\ item.kind = "MultisigTransaction"
                        /\ item.ref = txn.ref
                        /\ item.mref = txn.mref
                        /\ PairSigner(i) = _NullUser
                        /\ C14_SignedBy(msigs[txn.mref],
                                        C14_SigningAddresses(txn),
                                        heap[txn.ref])

\* a group of a multi-signature payload and a payment has been signed: the
\* payment with its sender's key, the other by its two signing accounts
C14_Witness ==
    /\ C14_Signed
    /\ Len(call.transactions) = 2
    /\ \E i, j \in 1..2 :
          /\ PairTxn(i).kind = "_MultisigTxn"
          /\ Len(PairTxn(i).signing_accounts) = 2
          /\ msigs[PairTxn(i).mref].subsigs[2].signature # NoneV
          /\ PairTxn(j).kind = "Transaction"
          /\ call.output_to_send[j].key = "skB"

----------------------------------------------------------------------------
(* C15 *)

\* the errors a sign method ends with
C15_SigningErrors == {"TypeError", "BadTxnSenderError", "InvalidSecretKeyError"}

\* sign was invoked on a plain payload whose signer has no private key, or
\* on a group one of whose plain payloads is paired with such a signer
C15_Keyless ==
    /\ InCall
    /\ Happened("sign")
    /\ \/ /\ call.txn.kind = "Transaction"
          /\ call.signer.private_key = "None"
       \/ /\ call.txn.kind = "_GroupTxn"
          /\ \E i \in DOMAIN call.txn.transactions :
                /\ call.txn.transactions[i].kind = "Transaction"
                /\ call.txn.signers[i].private_key = "None"

(* C15: a signer without a private key never signs a plain payload: the call
   of a plain operation whose signer has none, and the call of a group one of
   whose plain payloads is paired with such a signer, end in sign with a
   signing error; nothing is handed to the network and nothing is returned,
   and no submission ever carries a signature made without a key. *)
C15_NoCredential ==
    /\ C15_Keyless =>
          /\ call.status = "raised"
          /\ pc = "raise" => exc \in C15_SigningErrors
          /\ pc = "done" => result.exc \in C15_SigningErrors
          /\ call.output_to_send = <<>>
          /\ ~Happened("submit")
          /\ ~Happened("return")
    /\ \A e \in Events("submit") :
          \A i \in DOMAIN ev[e].list :
              ev[e].list[i].kind = "SignedTransaction" =>
                  ev[e].list[i].key # "None"

\* a group whose second payload is a payment paired with the multi-signature
\* account, which has no key, has ended in sign
C15_Witness ==
    /\ C15_Keyless
    /\ call.txn.kind = "_GroupTxn"
    /\ Len(call.txn.transactions) = 2
    /\ call.txn.signers[1].private_key = "skA"
    /\ call.txn.signers[2].private_key = "None"
    /\ pc = "raise"
    /\ exc = "TypeError"

----------------------------------------------------------------------------
(* C16 *)

\* sign was invoked on the _MultisigTxn of a multisig_transaction call
C16_MultisigSigned ==
    InCall /\ call.op = "multisig_transaction" /\ Happened("sign")

\* how many of the signing accounts, from the first on, algosdk lets sign
\* the envelope of txn: none when txn is not sent by the multi-signature
\* account, else those before the first one that is no owner
C16_Applied(txn, accounts) ==
    IF txn.sender # MsigAccount.address THEN 0
    ELSE LET ok == {k \in 0..Len(accounts) :
                       \A i \in 1..k :
                           accounts[i].address \in
                               {MsigAccount.owner_accounts[j].address :
                                   j \in DOMAIN MsigAccount.owner_accounts}}
         IN CHOOSE k \in ok : \A l \in ok : l <= k

C16_NetworkErrors ==
    {"AlgodHTTPError", "TransactionRejectedError", "ConfirmationTimeoutError"}

(* C16: _MultisigTxn.sign applies the keys of the signing accounts to the
   envelope one after the other in list order (the envelope carries the
   signatures of the accounts before the first one algosdk refuses, and of no
   other), and checks no threshold: when every signing account could sign,
   however few they are, none included, sign returns the envelope as the one
   object to submit, and the call can then only fail at the network. *)
C16_NoThreshold ==
    C16_MultisigSigned =>
        LET accounts == call.signing_accounts
            txn == heap[call.txn.ref]
            k == C16_Applied(txn, accounts)
        IN /\ C14_SignedBy(msigs[call.txn.mref],
                           {accounts[i].address : i \in 1..k}, txn)
           /\ k = Len(accounts) =>
                 /\ call.output_to_send =
                        <<MultisigTransaction(call.txn.ref, call.txn.mref)>>
                 /\ call.status = "raised" =>
                       /\ Happened("submit")
                       /\ pc = "raise" => exc \in C16_NetworkErrors
           /\ k < Len(accounts) =>
                 /\ call.status = "raised"
                 /\ call.output_to_send = <<>>
                 /\ ~Happened("submit")

\* one owner of two has signed, the threshold being two: the envelope was
\* submitted and the network rejected it
C16_Witness ==
    /\ C16_MultisigSigned
    /\ call.signing_accounts = <<UserA>>
    /\ Len(call.signing_accounts) < msigs[call.txn.mref].threshold
    /\ msigs[call.txn.mref].subsigs[1].signature # NoneV
    /\ msigs[call.txn.mref].subsigs[2].signature = NoneV
    /\ call.submitted # <<>>
    /\ call.submitted[1].kind = "MultisigTransaction"
    /\ pc = "raise"
    /\ exc = "TransactionRejectedError"

----------------------------------------------------------------------------
(* C17 *)

\* the _MultisigTxn objects there are: those the caller holds and the one
\* the running call has built
C17_Multisigs ==
    {held[i].txn : i \in {j \in DOMAIN held :
                             held[j].txn.kind = "_MultisigTxn"}}
    \cup (IF InCall /\ call.txn # NoneV /\ call.txn.kind = "_MultisigTxn"
          THEN {call.txn} ELSE {})

\* sign has been invoked on m, by itself or as a payload of a group
C17_InSigning(m) ==
    /\ InCall
    /\ Happened("sign")
    /\ \/ call.txn = m
       \/ /\ call.txn.kind = "_GroupTxn"
          /\ \E i \in DOMAIN call.txn.transactions :
                call.txn.transactions[i] = m

(* C17: every multi-signature transaction is built on a descriptor of its
   own, which starts without a signature: no two of them, built from the same
   account, share a descriptor; one that sign was not invoked on carries no
   signature, whatever was signed meanwhile; and the signatures one carries
   are those of its own signing accounts over its own Transaction. *)
C17_FreshDescriptor ==
    /\ \A a, b \in C17_Multisigs : a # b => a.mref # b.mref
    /\ \A m \in C17_Multisigs :
          \A k \in DOMAIN msigs[m.mref].subsigs :
              LET sig == msigs[m.mref].subsigs[k].signature
              IN IF C17_InSigning(m)
                 THEN sig # NoneV =>
                         /\ sig.over = heap[m.ref]
                         /\ PublicKey(sig.key) \in C14_SigningAddresses(m)
                 ELSE sig = NoneV

\* two multi-signature transactions of the same account were signed in one
\* group, the first by one owner and the second by both: the first one's
\* descriptor has one signature and the second one's has two
C17_Witness ==
    /\ IsGroupCall
    /\ Happened("sign")
    /\ call.status # "raised"
    /\ Len(call.transactions) = 2
    /\ PairTxn(1).kind = "_MultisigTxn"
    /\ PairTxn(2).kind = "_MultisigTxn"
    /\ PairTxn(1).signing_accounts = <<UserA>>
    /\ PairTxn(2).signing_accounts = <<UserA, UserB>>
    /\ PairTxn(1).mref # PairTxn(2).mref
    /\ msigs[PairTxn(1).mref].subsigs[2].signature = NoneV
    /\ msigs[PairTxn(2).mref].subsigs[2].signature # NoneV

----------------------------------------------------------------------------
(* The pipeline with the repository's own confirmation wait                 *)
(*                                                                         *)
(* wait_for_confirmation, which client_ops.process_transactions calls, is  *)
(* code of algosdk.  The wait the repository itself holds is               *)
(* helpers._wait_for_confirmation, called by helpers.process_transactions  *)
(* with the same budget of rounds.  Here a sent call goes through that     *)
(* wait, statement by statement, against an algod that answers each query  *)
(* in any way it can.                                                      *)

\* client.status()["last-round"] when the wait begins
LastRounds == {0, 7}

\* pending_txn["pool-error"]: empty while the pool holds the transaction
PoolErrors == {"", "overspend"}

\* what client.pending_transaction_info(transaction_id) may answer in a
\* round: "confirmed-round" is 0 until the transaction is in a block
Responses(round) == [confirmed_round : {0, round}, pool_error : PoolErrors]

\* the bug: the round after the budget is waited for as well
InBudget_Inclusive(current_round, start_round, timeout) ==
    current_round <= start_round + timeout

\* line 128: while current_round < start_round + timeout
InBudget(current_round, start_round, timeout) ==
    current_round < start_round + timeout

\* the bug: the pool error is looked at before the confirmed round
Outcome_PoolErrorFirst(pending_txn) ==
    IF pending_txn.pool_error # "" THEN "raise"
    ELSE IF pending_txn.confirmed_round > 0 THEN "return"
    ELSE "block"

\* lines 133-137: if pending_txn.get("confirmed-round", 0) > 0: return;
\* elif pending_txn["pool-error"]: raise; else wait for the next block
Outcome(pending_txn) ==
    IF pending_txn.confirmed_round > 0 THEN "return"
    ELSE IF pending_txn.pool_error # "" THEN "raise"
    ELSE "block"

\* raise Exception("pool error: {}".format(pending_txn["pool-error"]))
PoolErrorMessage(pool_error) == "pool error: " \o pool_error

\* raise Exception("pending tx not found in timeout rounds, ...")
TimeoutMessage == "pending tx not found in timeout rounds"

QueryEvent(raised, pending_txn) ==
    [e |-> "pending_transaction_info", n |-> call.polls + 1,
     round |-> call.current_round, raised |-> raised, answer |-> pending_txn]

BlockEvent(raised) ==
    [e |-> "status_after_block", round |-> call.current_round,
     raised |-> raised]

\* lines 125-126: start_round = client.status()["last-round"] + 1
StatusStep ==
    /\ pc = "wait"
    /\ pc' = "loop"
    /\ \E last_round \in LastRounds :
          /\ call' = [call EXCEPT !.start_round = last_round + 1,
                                  !.current_round = last_round + 1]
          /\ ev' = Append(ev, [e |-> "status", last_round |-> last_round])
    /\ UNCHANGED <<_no_log, _no_params, _no_send, _no_sign, outside, _with_txn_id,
                   stack, exc, result, lastexit, heap, msigs, held>>

\* client.status() raises
StatusFail ==
    /\ pc = "wait"
    /\ Raise("AlgodHTTPError", Append(ev, Event("status")), msigs)

\* lines 128-136: one pass of the loop with an answered query; a return
\* leaves the wait and process_transactions, and the pipeline goes on
PendingInfoStep ==
    /\ pc = "loop"
    /\ InBudget(call.current_round, call.start_round, RoundBudget)
    /\ \E pending_txn \in Responses(call.current_round) :
          /\ ev' = Append(ev, QueryEvent(FALSE, pending_txn))
          /\ CASE Outcome(pending_txn) = "return" ->
                    /\ pc' = "info"
                    /\ call' = [call EXCEPT !.polls = @ + 1]
                    /\ exc' = exc
               [] Outcome(pending_txn) = "raise" ->
                    /\ pc' = "raise"
                    /\ call' = [call EXCEPT !.polls = @ + 1,
                                            !.status = "raised"]
                    /\ exc' = PoolErrorMessage(pending_txn.pool_error)
               [] Outcome(pending_txn) = "block" ->
                    /\ pc' = "block"
                    /\ call' = [call EXCEPT !.polls = @ + 1]
                    /\ exc' = exc
    /\ UNCHANGED <<_no_log, _no_params, _no_send, _no_sign, outside, _with_txn_id,
                   stack, result, lastexit, heap, msigs, held>>

\* lines 129-132: the query raises; except Exception: return
PendingInfoFail ==
    /\ pc = "loop"
    /\ InBudget(call.current_round, call.start_round, RoundBudget)
    /\ pc' = "info"
    /\ ev' = Append(ev, QueryEvent(TRUE, NoneV))
    /\ call' = [call EXCEPT !.polls = @ + 1]
    /\ UNCHANGED <<_no_log, _no_params, _no_send, _no_sign, outside, _with_txn_id,
                   stack, exc, result, lastexit, heap, msigs, held>>

\* lines 137-138: client.status_after_block(current_round); current_round += 1
BlockStep ==
    /\ pc = "block"
    /\ pc' = "loop"
    /\ ev' = Append(ev, BlockEvent(FALSE))
    /\ call' = [call EXCEPT !.current_round = @ + 1]
    /\ UNCHANGED <<_no_log, _no_params, _no_send, _no_sign, outside, _with_txn_id,
                   stack, exc, result, lastexit, heap, msigs, held>>

\* client.status_after_block(current_round) raises
BlockFail ==
    /\ pc = "block"
    /\ Raise("AlgodHTTPError", Append(ev, BlockEvent(TRUE)), msigs)

\* lines 139-141: the loop is left, the budget being used up
TimeoutStep ==
    /\ pc = "loop"
    /\ ~InBudget(call.current_round, call.start_round, RoundBudget)
    /\ Raise(TimeoutMessage, ev, msigs)

NextWait ==
    \/ CallPlain
    \/ ParamsStep
    \/ ParamsFail
    \/ BuildStep
    \/ BuildFail
    \/ SignStep
    \/ SubmitStep
    \/ SubmitFail
    \/ StatusStep
    \/ StatusFail
    \/ PendingInfoStep
    \/ PendingInfoFail
    \/ BlockStep
    \/ BlockFail
    \/ TimeoutStep
    \/ InfoStep
    \/ InfoFail
    \/ FinishStep
    \/ Reach
    \/ Resume

SpecWait == Init /\ [][NextWait]_vars

----------------------------------------------------------------------------
(* C18 *)

\* the status queries the wait of the running call has made
Queries == Events("pending_transaction_info")

\* the wait of the running call began and is over
WaitOver ==
    /\ InCall
    /\ call.start_round > 0
    /\ pc \notin {"wait", "loop", "block"}

\* the error the running call ended with, if it did
Failure ==
    IF pc = "raise" THEN exc
    ELSE IF pc = "done" /\ call.status = "raised" THEN result.exc
    ELSE "None"

\* algod answered every query and every wait for a block, and no answer
\* had a confirmed round or a pool error
C18_NeverConfirms ==
    /\ \A q \in Queries :
          /\ ~ev[q].raised
          /\ ev[q].answer.confirmed_round = 0
          /\ ev[q].answer.pool_error = ""
    /\ \A b \in Events("status_after_block") : ~ev[b].raised

(* C18: the wait queries the status of the transaction once a round, from
   the round after the one it began in, and at most as many times as its
   budget of rounds (4); when no answer has a confirmed round or a pool
   error, the wait ends after exactly that many queries, by raising the
   timeout error, so it does not go on for ever. *)
C18_Timeout ==
    InCall =>
        /\ Count("pending_transaction_info") <= RoundBudget
        /\ Count("pending_transaction_info") = call.polls
        /\ \A q \in Queries :
              /\ ev[q].n \in 1..call.polls
              /\ ev[q].round = call.start_round + ev[q].n - 1
              /\ \A r \in Queries : ev[r].n = ev[q].n => r = q
        /\ (WaitOver /\ C18_NeverConfirms) =>
              /\ Count("pending_transaction_info") = RoundBudget
              /\ call.status = "raised"
              /\ Failure = TimeoutMessage
        /\ Failure = TimeoutMessage =>
              /\ Count("pending_transaction_info") = RoundBudget
              /\ C18_NeverConfirms

\* the fourth query, three rounds after the first, was answered like the
\* others, and the wait raised the timeout error
C18_Witness ==
    /\ WaitOver
    /\ C18_NeverConfirms
    /\ pc = "raise"
    /\ exc = TimeoutMessage
    /\ call.start_round = 8
    /\ \E q \in Queries : ev[q].n = RoundBudget /\ ev[q].round = 11

----------------------------------------------------------------------------
(* C19 *)

\* what a sent call that ended normally leaves in the trace
C19_Finished ==
    \/ Happened("return")
    \/ Happened("extract")
    \/ \E i \in Events("log") : ev[i].line = "Finished"

(* C19: a query answered with a confirmed round above 0 is the last one of
   its wait, and the wait returns: the pipeline goes on to fetch the
   transaction's info.  A query answered with no confirmed round and a pool
   error is the last one too, and the wait raises an error that carries the
   pool's reason.  After that error, and after the timeout error, the call
   has returned nothing and logged no finish line. *)
C19_PollOutcome ==
    InCall =>
        /\ \A q \in Queries :
              (~ev[q].raised /\ ev[q].answer.confirmed_round > 0) =>
                  /\ ev[q].n = call.polls
                  /\ WaitOver
                  /\ pc = "info" \/ Happened("info")
        /\ \A q \in Queries :
              (/\ ~ev[q].raised
               /\ ev[q].answer.confirmed_round = 0
               /\ ev[q].answer.pool_error # "") =>
                  /\ ev[q].n = call.polls
                  /\ call.status = "raised"
                  /\ Failure = "pool error: " \o ev[q].answer.pool_error
                  /\ ~Happened("info")
        /\ Failure \in {TimeoutMessage} \cup
                       {"pool error: " \o r : r \in PoolErrors \ {""}} =>
              /\ ~C19_Finished
              /\ pc = "done" => result = [kind |-> "raised", exc |-> Failure]

\* the second query was answered with a pool error, and the caller got the
\* error with the reason in it
C19_Witness ==
    /\ InCall
    /\ pc = "done"
    /\ call.polls = 2
    /\ \E q \in Queries :
          /\ ev[q].n = 2
          /\ ~ev[q].raised
          /\ ev[q].answer = [confirmed_round |-> 0, pool_error |-> "overspend"]
    /\ result = [kind |-> "raised", exc |-> "pool error: overspend"]

----------------------------------------------------------------------------
(* C20 *)

(* C20: nothing is suppressed silently: when a status query of the wait
   fails, as when any other step of the call fails, the call ends with an
   error; it does not go on to fetch the transaction's info, and neither the
   wait nor the call returns normally. *)
C20_NoSilentSuppression ==
    InCall =>
        /\ (\E q \in Queries : ev[q].raised) =>
              /\ call.status = "raised"
              /\ pc # "info"
              /\ ~Happened("info")
              /\ ~Happened("return")
        /\ call.status = "raised" => ~Happened("return")

----------------------------------------------------------------------------
(* utils.py: an application's state as the indexer gives it, made a dict    *)
(*                                                                         *)
(* A byte string is [utf8, text]: the UTF-8 encoding of text, or (utf8     *)
(* FALSE) bytes that encode no text, as the 32 bytes of a public key.      *)

\* base64.b64decode(b64): the bytes a base64 text stands for
b64decode(b64) == b64.of

\* _base64_to_str(b64): base64.b64decode(b64).decode("utf-8")
_base64_to_str(b64) ==
    LET bytes == b64decode(b64)
    IN IF bytes.utf8
       THEN [err |-> "None", value |-> [kind |-> "str", v |-> bytes.text]]
       ELSE [err |-> "UnicodeDecodeError", value |-> NoneV]

\* the bug: a key among address_fields is not looked at
Converted_NoAddress(entry, key, address_fields) ==
    LET value_type == entry.value.type
    IN CASE value_type = 1 ->
               _base64_to_str(entry.value.bytes)
         [] value_type = 2 ->
               [err |-> "None", value |-> IntV(entry.value.uint)]
         [] OTHER ->
               [err |-> "ValueError", value |-> NoneV]

\* lines 27-34: the value of one entry whose key is key; encode_address
\* makes the bytes an address
Converted(entry, key, address_fields) ==
    LET value_type == entry.value.type
        listed == \E i \in DOMAIN address_fields : address_fields[i] = key
    IN CASE value_type = 1 /\ ~listed ->
               _base64_to_str(entry.value.bytes)
         [] value_type = 1 /\ listed ->
               [err |-> "None",
                value |-> [kind |-> "address",
                           of |-> b64decode(entry.value.bytes)]]
         [] value_type = 2 ->
               [err |-> "None", value |-> IntV(entry.value.uint)]
         [] OTHER ->
               [err |-> "ValueError", value |-> NoneV]

\* lines 22-38: the loop over algo_dict from the i-th entry on, ret being
\* the dict so far
RECURSIVE ConvertFrom(_, _, _, _)
ConvertFrom(algo_dict, address_fields, i, ret) ==
    IF i > Len(algo_dict)
    THEN [err |-> "None", message |-> "", ret |-> ret]
    ELSE LET key == _base64_to_str(algo_dict[i].key)
         IN IF key.err # "None"
            THEN [err |-> key.err, message |-> "", ret |-> NoneV]
            ELSE LET c == Converted(algo_dict[i], key.value.v, address_fields)
                     k0 == key.value.v
                 IN IF c.err = "ValueError"
                    THEN [err |-> c.err,
                          message |-> "Unknown value type for key: " \o k0,
                          ret |-> NoneV]
                    ELSE IF c.err # "None"
                    THEN [err |-> c.err, message |-> "", ret |-> NoneV]
                    ELSE ConvertFrom(algo_dict, address_fields, i + 1,
                                     [k \in DOMAIN ret \cup {k0} |->
                                        IF k = k0 THEN c.value ELSE ret[k]])

\* _convert_algo_dict(algo_dict, address_fields), address_fields being None
\* or a list
_convert_algo_dict(algo_dict, address_fields) ==
    ConvertFrom(algo_dict,
                IF address_fields.kind = "None" THEN <<>>
                ELSE address_fields.items,
                1, <<>>)

\* the "global-state" lists an indexer may answer with; an application
\* keeps a text, the bytes of a public key or a number, and type 3 is a
\* type Algorand does not have
StateLists ==
    LET b64encode(utf8, text) ==
            [kind |-> "b64", of |-> [utf8 |-> utf8, text |-> text]]
        values ==
            {[type |-> 1, bytes |-> b64encode(TRUE, "Damian"), uint |-> 0],
             [type |-> 1, bytes |-> b64encode(FALSE, "pk"), uint |-> 0],
             [type |-> 2, bytes |-> b64encode(TRUE, ""), uint |-> 42],
             [type |-> 3, bytes |-> b64encode(TRUE, "Damian"), uint |-> 0]}
        entries ==
            {[key |-> b64encode(TRUE, k), value |-> v] :
                k \in {"Buyer", "Payment-Addr"}, v \in values}
    IN UNION {[1..n -> entries] : n \in 0..MaxEntries}

----------------------------------------------------------------------------
(* client_ops.py: the read queries behind _wait_for_indexer                 *)
(*                                                                         *)
(* A caller sets the configuration as the repository's tests do (an        *)
(* indexer timeout of one second) and then asks read queries; algod, the   *)
(* indexer and the KMD answer each request in any way they can.  The       *)
(* configuration is left alone once _initial_funds_account() has a cached  *)
(* result.                                                                 *)

\* ConfigParams as the caller sets it
Configs ==
    [initial_funds_account : {"None", "F"},
     indexer_timeout : {1},
     kmd_wallet_name : {"unencrypted-default-wallet",
                        "non-existent-wallet-name"}]

\* the read queries the caller asks
ReadCalls ==
    {[op |-> "asset_info", args |-> [asset_id |-> -1]],
     [op |-> "asset_info", args |-> [asset_id |-> 1]],
     [op |-> "_initial_funds_account", args |-> NoneV]}
    \cup {[op |-> "application_global_state",
           args |-> [app_id |-> 1, address_fields |-> f]] :
             f \in {NoneV, List(<<"Payment-Addr">>)}}

\* line 112: timeout < ConfigParams.indexer_timeout, timeout being the sum of
\* steps additions of sleep_step; RoundedDown are the numbers n for which n
\* additions of 0.1 to 0.0 in IEEE 754 doubles end below n / 10, among the
\* multiples of ten up to 200
TimeoutBelow(steps, indexer_timeout) ==
    LET RoundedDown == {10, 50, 60, 70, 80, 90, 100, 110, 120, 130, 140,
                        150, 160, 170, 180}
    IN \/ steps < StepsPerSecond * indexer_timeout
       \/ steps = StepsPerSecond * indexer_timeout /\ steps \in RoundedDown

\* the bug: every exception of the query is caught
Retried_Any(err) == err # "None"

\* line 116: except IndexerHTTPError
Retried(err) == err = "IndexerHTTPError"

\* the text of an exception: its class and its message
ErrorText(err, message) == err \o ": " \o message

\* what one call of a query function does: the exception it ends with or
\* the value it returns, the requests it made in order, and what lru_cache
\* holds afterwards
Outcome_(err, message, ret, requests, cache) ==
    [err |-> err, message |-> message, ret |-> ret, requests |-> requests,
     cache |-> cache]

\* asset_info(asset_id): _indexer_client().asset_info(asset_id); a negative
\* number is no asset id, and an asset may not be indexed yet
asset_info(asset_id, cache) ==
    {Outcome_("IndexerHTTPError",
              IF asset_id < 0 THEN "Invalid format for parameter asset-id"
              ELSE "no asset found",
              NoneV, <<Event("asset_info")>>, cache)}
    \cup (IF asset_id < 0 THEN {}
          ELSE {Outcome_("None", "",
                         [kind |-> "dict", asset |-> asset_id],
                         <<Event("asset_info")>>, cache)})

\* application_global_state(app_id, address_fields)
application_global_state(app_id, address_fields, cache) ==
    {Outcome_("IndexerHTTPError", "no application found", NoneV,
              <<Event("applications")>>, cache)}
    \cup {LET c == _convert_algo_dict(app_global_state, address_fields)
          IN Outcome_(c.err, c.message,
                      IF c.err = "None"
                      THEN [kind |-> "dict", items |-> c.ret] ELSE NoneV,
                      <<[e |-> "applications",
                         global_state |-> app_global_state,
                         address_fields |-> address_fields]>>, cache) :
            app_global_state \in StateLists}

\* the bug: the first wallet is taken whatever its name
WalletFound_Any(wallets, wallet_id) == wallets # <<>>

\* line 52: if wallet_id is None
WalletFound(wallets, wallet_id) == wallet_id # "None"

\* the bug: the handle is released after the export, with no finally
_get_kmd_account_private_key_NoFinally(address, wallets, kmd) ==
    LET name == ConfigParams.kmd_wallet_name
        hits == {i \in DOMAIN wallets : wallets[i].name = name}
        wallet_id ==
            IF hits = {} THEN "None"
            ELSE wallets[CHOOSE i \in hits : \A j \in hits : i <= j].id
        wallet_handle == "handle-" \o wallet_id
        listed == <<[e |-> "list_wallets", wallets |-> wallets]>>
        refused == listed \o
                   <<[e |-> "init_wallet_handle", id |-> wallet_id,
                      handle |-> "None"]>>
        initialised == listed \o
                       <<[e |-> "init_wallet_handle", id |-> wallet_id,
                          handle |-> wallet_handle],
                         [e |-> "export_key", handle |-> wallet_handle,
                          address |-> address]>>
        released == <<[e |-> "release_wallet_handle",
                       handle |-> wallet_handle]>>
    IN IF ~WalletFound(wallets, wallet_id)
       THEN [err |-> "ValueError", message |-> "Wallet not found: " \o name,
             key |-> "None", requests |-> listed]
       ELSE IF kmd = "no handle"
       THEN [err |-> "KMDHTTPError", message |-> "wallet does not exist",
             key |-> "None", requests |-> refused]
       ELSE IF kmd = "no key"
       THEN [err |-> "KMDHTTPError", message |-> "key does not exist",
             key |-> "None", requests |-> initialised]
       ELSE [err |-> "None", message |-> "", key |-> "sk" \o address,
             requests |-> initialised \o released]

\* _get_kmd_account_private_key(address), the KMD listing wallets, giving
\* a handle of the wallet or refusing to ("no handle"), and exporting the
\* key or refusing to ("no key"); the handle is released in the finally
_get_kmd_account_private_key(address, wallets, kmd) ==
    LET name == ConfigParams.kmd_wallet_name
        hits == {i \in DOMAIN wallets : wallets[i].name = name}
        wallet_id ==
            IF hits = {} THEN "None"
            ELSE wallets[CHOOSE i \in hits : \A j \in hits : i <= j].id
        wallet_handle == "handle-" \o wallet_id
        listed == <<[e |-> "list_wallets", wallets |-> wallets]>>
        refused == listed \o
                   <<[e |-> "init_wallet_handle", id |-> wallet_id,
                      handle |-> "None"]>>
        initialised == listed \o
                       <<[e |-> "init_wallet_handle", id |-> wallet_id,
                          handle |-> wallet_handle],
                         [e |-> "export_key", handle |-> wallet_handle,
                          address |-> address]>>
        released == <<[e |-> "release_wallet_handle",
                       handle |-> wallet_handle]>>
    IN IF ~WalletFound(wallets, wallet_id)
       THEN [err |-> "ValueError", message |-> "Wallet not found: " \o name,
             key |-> "None", requests |-> listed]
       ELSE IF kmd = "no handle"
       THEN [err |-> "KMDHTTPError", message |-> "wallet does not exist",
             key |-> "None", requests |-> refused]
       ELSE IF kmd = "no key"
       THEN [err |-> "KMDHTTPError", message |-> "key does not exist",
             key |-> "None", requests |-> initialised \o released]
       ELSE [err |-> "None", message |-> "", key |-> "sk" \o address,
             requests |-> initialised \o released]

\* the bug: the indexer is asked although an account is configured
Configured_Never(initial_funds_account) == FALSE

\* line 137: if ConfigParams.initial_funds_account is not None
Configured(initial_funds_account) == initial_funds_account # "None"

\* _initial_funds_account() under lru_cache(maxsize=1): a result is kept
\* and handed out again, an exception is not.  The indexer answers
\* accounts() with a list of accounts, a dict without "accounts" being read
\* as two accounts about which nothing is known; the KMD answers
\* list_wallets() with a list of wallets.
_initial_funds_account(cache) ==
    LET Account(address, created_at_round, status) ==
            [address |-> address, created_at_round |-> created_at_round,
             status |-> status]
        AccountLists ==
            {<<>>,
             <<Account("None", -1, "None"), Account("None", -1, "None")>>,
             <<Account("H", 0, "Offline")>>,
             <<Account("H", 3, "Online"), Account("G", 0, "Online")>>}
        WalletLists ==
            {<<>>,
             <<[name |-> "other-wallet", id |-> "w1"]>>,
             <<[name |-> "other-wallet", id |-> "w1"],
               [name |-> "unencrypted-default-wallet", id |-> "w2"]>>}
        \* lines 142-150
        Discovered(accounts) ==
            LET hits == {i \in DOMAIN accounts :
                            /\ accounts[i].created_at_round = 0
                            /\ accounts[i].status = "Online"}
            IN IF hits = {} THEN "None"
               ELSE accounts[CHOOSE i \in hits :
                                \A j \in hits : i <= j].address
        \* lines 153-159
        FundsAccountOf(initial_address, asked) ==
            IF initial_address = "None"
            THEN {Outcome_("RuntimeError",
                           "Initial funds account not yet created!",
                           NoneV, asked, NoneV)}
            ELSE {LET k == _get_kmd_account_private_key(initial_address,
                                                        wallets, kmd)
                      user == AlgoUser(initial_address, k.key)
                  IN IF k.err # "None"
                     THEN Outcome_(k.err, k.message, NoneV,
                                   asked \o k.requests, NoneV)
                     ELSE Outcome_("None", "", user, asked \o k.requests,
                                   user) :
                    wallets \in WalletLists,
                    kmd \in {"key", "no key", "no handle"}}
    IN IF cache # NoneV
       THEN {Outcome_("None", "", cache, <<>>, cache)}
       ELSE IF Configured(ConfigParams.initial_funds_account)
       THEN FundsAccountOf(ConfigParams.initial_funds_account, <<>>)
       ELSE {Outcome_("IndexerHTTPError", "indexer is not ready", NoneV,
                      <<Event("accounts")>>, NoneV)}
            \cup UNION {FundsAccountOf(Discovered(accounts),
                                       <<[e |-> "accounts",
                                          accounts |-> accounts]>>) :
                           accounts \in AccountLists}

\* monkeypatch.setattr(ConfigParams, ...), INDEXER_TIMEOUT=... and the like
Configure ==
    /\ pc = "idle"
    /\ lru_cache = NoneV
    /\ ConfigParams' \in Configs \ {ConfigParams}
    /\ UNCHANGED <<_no_log, _no_params, _no_send, _no_sign, _with_txn_id,
                   stack, pc, call, ev, exc, result, lastexit, heap, msigs,
                   held, lru_cache, threads>>

\* the call of a read query: wrapped of _wait_for_indexer begins
ReadCall ==
    /\ pc = "idle"
    /\ ConfigParams \in Configs
    /\ \E c \in ReadCalls :
          call' = [NoCall EXCEPT !.op = c.op, !.args = c.args,
                                 !.status = "running"]
    /\ pc' = "algod_round"
    /\ UNCHANGED <<_no_log, _no_params, _no_send, _no_sign, outside,
                   _with_txn_id, stack, ev, exc, result, lastexit, heap,
                   msigs, held>>

\* line 106: algod_round = _algod_client().status()["last-round"], or
\* status() raises
AlgodRoundStep ==
    /\ pc = "algod_round"
    /\ \E last_round \in {-1, 3} :
          IF last_round < 0
          THEN Raise(ErrorText("AlgodHTTPError", "algod is not ready"),
                     Append(ev, Event("status")), msigs)
          ELSE /\ pc' = "health"
               /\ call' = [call EXCEPT !.algod_round = last_round]
               /\ ev' = Append(ev, [e |-> "status",
                                    last_round |-> last_round])
               /\ UNCHANGED <<_no_log, _no_params, _no_send, _no_sign,
                              outside, _with_txn_id, stack, exc, result,
                              lastexit, heap, msigs, held>>

\* lines 107-108: while _indexer_client().health()["round"] < algod_round:
\* time.sleep(sleep_step), or health() raises; an indexer behind catches up
\* in the end
HealthStep ==
    /\ pc = "health"
    /\ \E round \in {-1, call.algod_round - 1, call.algod_round,
                     call.algod_round + 1} :
          IF round < 0
          THEN Raise(ErrorText("IndexerHTTPError", "indexer is not ready"),
                     Append(ev, Event("health")), msigs)
          ELSE /\ IF round < call.algod_round
                  THEN /\ call.lag < MaxLag
                       /\ call' = [call EXCEPT !.lag = @ + 1]
                       /\ ev' = ev \o <<[e |-> "health", round |-> round],
                                        Event("sleep")>>
                       /\ pc' = pc
                  ELSE /\ call' = call
                       /\ ev' = Append(ev, [e |-> "health", round |-> round])
                       /\ pc' = "try"
               /\ UNCHANGED <<_no_log, _no_params, _no_send, _no_sign,
                              outside, _with_txn_id, stack, exc, result,
                              lastexit, heap, msigs, held>>

\* lines 112-122, one test of the loop: with the timeout slept away
\* TimeoutError is raised; else the query is tried: its value is returned,
\* an IndexerHTTPError is slept on, anything else leaves wrapped
AttemptStep ==
    /\ pc = "try"
    /\ IF ~TimeoutBelow(call.timeout, ConfigParams.indexer_timeout)
       THEN Raise(ErrorText("TimeoutError",
                            "Timeout reached waiting for indexer."),
                  ev, msigs)
       ELSE
       \E o \in CASE call.op = "asset_info" ->
                     asset_info(call.args.asset_id, lru_cache)
                 [] call.op = "application_global_state" ->
                     application_global_state(call.args.app_id,
                                              call.args.address_fields,
                                              lru_cache)
                 [] call.op = "_initial_funds_account" ->
                     _initial_funds_account(lru_cache) :
          LET attempt == [e |-> "attempt", slept |-> call.timeout,
                          err |-> o.err, message |-> o.message,
                          requests |-> o.requests]
          IN
          /\ lru_cache' = o.cache
          /\ CASE o.err = "None" ->
                    /\ pc' = "done"
                    /\ call' = [call EXCEPT !.ret = o.ret,
                                            !.status = "returned"]
                    /\ ev' = ev \o <<attempt, Event("return")>>
                    /\ result' = o.ret
                    /\ exc' = exc
               [] Retried(o.err) ->
                    /\ pc' = pc
                    /\ call' = [call EXCEPT !.timeout = @ + 1]
                    /\ ev' = ev \o <<attempt, Event("sleep")>>
                    /\ result' = result
                    /\ exc' = exc
               [] OTHER ->
                    /\ pc' = "raise"
                    /\ call' = [call EXCEPT !.status = "raised"]
                    /\ ev' = Append(ev, attempt)
                    /\ result' = result
                    /\ exc' = ErrorText(o.err, o.message)
          /\ UNCHANGED <<_no_log, _no_params, _no_send, _no_sign,
                         _with_txn_id, stack, lastexit, heap, msigs, held,
                         ConfigParams, threads>>

NextIndexer ==
    \/ Configure
    \/ ReadCall
    \/ AlgodRoundStep
    \/ HealthStep
    \/ AttemptStep
    \/ Reach
    \/ Resume

SpecIndexer == Init /\ [][NextIndexer]_vars

\* lines 107-108 past the MaxLag sleeps that are counted: the indexer
\* answers behind algod's round once more and wrapped sleeps on it, any
\* number of times
CatchUpBeyond ==
    /\ pc \in {"health", "sleep"}
    /\ pc = "health" => call.lag = MaxLag
    /\ pc' = IF pc = "health" THEN "sleep" ELSE "health"
    /\ UNCHANGED <<_no_log, _no_params, _no_send, _no_sign, outside,
                   _with_txn_id, stack, call, ev, exc, result, lastexit,
                   heap, msigs, held>>

NextCatchUp ==
    \/ Configure
    \/ ReadCall
    \/ AlgodRoundStep
    \/ HealthStep
    \/ CatchUpBeyond
    \/ AttemptStep
    \/ Reach
    \/ Resume

\* the calling thread is the only one and nothing stops it: a step the
\* program can take is taken in the end; which answer algod and the indexer
\* give is theirs to choose
SpecCatchUp == Init /\ [][NextCatchUp]_vars /\ WF_vars(NextCatchUp)

----------------------------------------------------------------------------
(* C21, C22: a read query, the indexer catching up and failing             *)

\* the attempts of the running read query, in order
Attempts == SelectSeq(ev, LAMBDA x : x.e = "attempt")

\* every attempt of the running read query failed with IndexerHTTPError
C21_EveryAttemptFailed ==
    /\ Attempts # <<>>
    /\ \A i \in DOMAIN Attempts : Attempts[i].err = "IndexerHTTPError"

\* C21: a read query whose every attempt fails with IndexerHTTPError gives
\* up only after it slept for at least ConfigParams.indexer_timeout seconds,
\* and the exception the caller gets is the query's IndexerHTTPError.
C21_QueryErrorSurfaced ==
    (call.status = "raised" /\ C21_EveryAttemptFailed) =>
        /\ call.timeout >= StepsPerSecond * ConfigParams.indexer_timeout
        /\ Failure = ErrorText("IndexerHTTPError",
                               Attempts[Len(Attempts)].message)

\* the place of the first attempt in the trace, past its end without one
FirstAttempt ==
    IF Happened("attempt")
    THEN CHOOSE i \in Events("attempt") : \A j \in Events("attempt") : i <= j
    ELSE Len(ev) + 1

\* the trace begins with the read of algod's last round, and up to the
\* first attempt the indexer is asked its round, each answer behind algod's
\* round slept on and the one that is not followed by the first attempt
C22_CaughtUpFirst ==
    Happened("attempt") =>
        /\ ev[1].e = "status"
        /\ ev[1].last_round = call.algod_round
        /\ FirstAttempt > 2
        /\ ev[FirstAttempt - 1].e = "health"
        /\ ev[FirstAttempt - 1].round >= call.algod_round
        /\ \A i \in 2 .. (FirstAttempt - 2) :
              \/ ev[i].e = "health" /\ ev[i].round < call.algod_round
                                    /\ ev[i + 1].e = "sleep"
              \/ ev[i].e = "sleep" /\ ev[i - 1].e = "health"

\* every attempt but the last failed with IndexerHTTPError and was slept on
\* once, no attempt was made with the timeout slept away
C22_RetriedOnTransient ==
    \A i \in DOMAIN Attempts :
        /\ Attempts[i].slept = i - 1
        /\ Attempts[i].slept <= StepsPerSecond * ConfigParams.indexer_timeout
        /\ i < Len(Attempts) => Attempts[i].err = "IndexerHTTPError"
    
\* how a query that was attempted ends
C22_Ending ==
    LET last == Attempts[Len(Attempts)]
    IN /\ call.status = "returned" =>
             /\ last.err = "None"
             /\ ev[Len(ev)].e = "return"
             /\ ev[Len(ev) - 1] = last
       /\ call.status = "raised" =>
             IF last.err = "IndexerHTTPError"
             THEN /\ Failure = ErrorText("TimeoutError",
                                 "Timeout reached waiting for indexer.")
                  /\ call.timeout >=
                        StepsPerSecond * ConfigParams.indexer_timeout
                  /\ call.timeout = Len(Attempts)
             ELSE /\ last.err # "None"
                  /\ Failure = ErrorText(last.err, last.message)
                  /\ ev[Len(ev)] = last
                  /\ call.timeout = Len(Attempts) - 1

\* C22: a read query first waits until the indexer's round is at least the
\* last round algod had when the call began, and only then is attempted;
\* an attempt that fails with IndexerHTTPError is slept on and made again
\* until the sleeps add up to the timeout, and then TimeoutError is raised;
\* the first attempt that succeeds is returned, and any other exception
\* leaves the call at once.
C22_WaitThenRetry ==
    /\ C22_CaughtUpFirst
    /\ C22_RetriedOnTransient
    /\ Attempts # <<>> => C22_Ending
    /\ (call.status = "returned" /\ call.op \in {c.op : c \in ReadCalls}) =>
          Attempts # <<>>

\* an indexer that was behind and then failed a query once before it
\* answered
C22_Witness ==
    /\ call.status = "returned"
    /\ call.lag > 0
    /\ Len(Attempts) > 1

\* a query that slept the timeout away
C21_Witness ==
    /\ call.status = "raised"
    /\ C21_EveryAttemptFailed
    /\ call.op = "asset_info"
    /\ call.args.asset_id < 0

----------------------------------------------------------------------------
(* C26, C27: the initial funds account and its key                         *)

\* the requests of one kind that an attempt made
Asked(attempt, name) ==
    {i \in DOMAIN attempt.requests : attempt.requests[i].e = name}

\* the attempts of _initial_funds_account() that ran its body
C26_Bodies ==
    {i \in DOMAIN Attempts :
        /\ call.op = "_initial_funds_account"
        /\ Attempts[i].requests # <<>> \/ Attempts[i].err # "None"}

\* the indexer listed accounts, none of them created at round 0 and Online
C26_NoneListed(attempt) ==
    /\ Asked(attempt, "accounts") # {}
    /\ attempt.err # "IndexerHTTPError"
    /\ \A i \in Asked(attempt, "accounts") :
          \A j \in DOMAIN attempt.requests[i].accounts :
              LET account == attempt.requests[i].accounts[j]
              IN ~(account.created_at_round = 0 /\ account.status = "Online")

\* C26: with no initial funds account configured and no account created at
\* round 0 and Online in the indexer's list, _initial_funds_account raises
\* RuntimeError('Initial funds account not yet created!') and the KMD is not
\* asked anything; with an initial funds account configured the indexer's
\* accounts are not asked for, and the key asked of the KMD and the user
\* returned are those of the configured address.
C26_FundsAccount ==
    \A i \in C26_Bodies :
        LET attempt == Attempts[i]
        IN /\ (ConfigParams.initial_funds_account = "None"
                  /\ C26_NoneListed(attempt)) =>
                 /\ attempt.err = "RuntimeError"
                 /\ attempt.message = "Initial funds account not yet created!"
                 /\ Asked(attempt, "list_wallets") = {}
                 /\ Asked(attempt, "export_key") = {}
                 /\ i = Len(Attempts)
                 /\ call.status = "raised"
                 /\ Failure = "RuntimeError: Initial funds account not yet created!"
           /\ ConfigParams.initial_funds_account # "None" =>
                 /\ Asked(attempt, "accounts") = {}
                 /\ Asked(attempt, "list_wallets") # {}
                 /\ \A j \in Asked(attempt, "export_key") :
                       attempt.requests[j].address =
                          ConfigParams.initial_funds_account
                 /\ attempt.err = "None" =>
                       /\ call.status = "returned"
                       /\ result.address = ConfigParams.initial_funds_account

\* nothing configured, and the indexer listed an account that is not Online
C26_Witness ==
    /\ call.op = "_initial_funds_account"
    /\ call.status = "raised"
    /\ ConfigParams.initial_funds_account = "None"
    /\ C26_Bodies # {}
    /\ C26_NoneListed(Attempts[Len(Attempts)])
    /\ Attempts[Len(Attempts)].requests[1].accounts # <<>>

\* the KMD listed its wallets, none of them of the configured name
C27_NoSuchWallet(attempt) ==
    /\ Asked(attempt, "list_wallets") # {}
    /\ \A i \in Asked(attempt, "list_wallets") :
          \A j \in DOMAIN attempt.requests[i].wallets :
              attempt.requests[i].wallets[j].name #
                 ConfigParams.kmd_wallet_name

\* C27: when no wallet of the KMD has the configured wallet name,
\* _get_kmd_account_private_key raises ValueError('Wallet not found: <name>'),
\* no wallet handle is initialised and no key is exported.
C27_WalletNotFound ==
    \A i \in DOMAIN Attempts :
        LET attempt == Attempts[i]
        IN C27_NoSuchWallet(attempt) =>
              /\ attempt.err = "ValueError"
              /\ attempt.message =
                    "Wallet not found: " \o ConfigParams.kmd_wallet_name
              /\ Asked(attempt, "init_wallet_handle") = {}
              /\ Asked(attempt, "export_key") = {}
              /\ Asked(attempt, "release_wallet_handle") = {}
              /\ call.status = "raised"
              /\ Failure = ErrorText("ValueError", attempt.message)

\* the KMD has a wallet, of another name than the configured one
C27_Witness ==
    /\ call.status = "raised"
    /\ Attempts # <<>>
    /\ C27_NoSuchWallet(Attempts[Len(Attempts)])
    /\ Attempts[Len(Attempts)].requests[
          CHOOSE i \in Asked(Attempts[Len(Attempts)], "list_wallets") : TRUE
       ].wallets # <<>>

----------------------------------------------------------------------------
(* C28: the entries of a state list and the keys of the dict made of it    *)

\* the key of an entry, a text
C28_Key(entry) == entry.key.of.text

\* the key of an entry is among address_fields
C28_IsAddress(entry, address_fields) ==
    /\ address_fields.kind # "None"
    /\ \E i \in DOMAIN address_fields.items :
          address_fields.items[i] = C28_Key(entry)

\* an entry whose bytes are to be decoded as a text and are the encoding of
\* none: the claim says nothing of it
C28_Undecodable(entry, address_fields) ==
    /\ entry.value.type = 1
    /\ ~C28_IsAddress(entry, address_fields)
    /\ ~entry.value.bytes.of.utf8

\* what the claim says an entry becomes
C28_Value(entry, address_fields) ==
    IF entry.value.type = 2 THEN IntV(entry.value.uint)
    ELSE IF C28_IsAddress(entry, address_fields)
    THEN [kind |-> "address", of |-> entry.value.bytes.of]
    ELSE [kind |-> "str", v |-> entry.value.bytes.of.text]

\* C28: _convert_algo_dict gives each entry of the list one key of the dict
\* it returns (the last entry of a key counts): bytes (type 1) under a key
\* that is not among address_fields are the text they encode, bytes under a
\* key among address_fields are the address they encode, a number (type 2)
\* is its uint; a list with an entry of another type ends in
\* ValueError('Unknown value type for key: <key>'), the key being that of
\* the first such entry, and no dict is returned.
C28_Conversion ==
    \A i \in DOMAIN Attempts :
        (call.op = "application_global_state"
            /\ Attempts[i].err # "IndexerHTTPError") =>
        LET attempt == Attempts[i]
            algo_dict == attempt.requests[1].global_state
            address_fields == attempt.requests[1].address_fields
            unknown == {j \in DOMAIN algo_dict :
                           algo_dict[j].value.type \notin {1, 2}}
            undecodable == {j \in DOMAIN algo_dict :
                               C28_Undecodable(algo_dict[j], address_fields)}
            Last(k) == CHOOSE j \in DOMAIN algo_dict :
                          /\ C28_Key(algo_dict[j]) = k
                          /\ \A h \in DOMAIN algo_dict :
                                C28_Key(algo_dict[h]) = k => h <= j
        IN /\ unknown # {} =>
                 /\ attempt.err # "None"
                 /\ call.status = "raised"
                 /\ (\A j \in undecodable : \E h \in unknown : h < j) =>
                       LET first == CHOOSE j \in unknown :
                                       \A h \in unknown : j <= h
                       IN /\ attempt.err = "ValueError"
                          /\ attempt.message =
                                "Unknown value type for key: "
                                   \o C28_Key(algo_dict[first])
                          /\ Failure = ErrorText("ValueError", attempt.message)
           /\ (unknown = {} /\ undecodable = {}) =>
                 /\ attempt.err = "None"
                 /\ call.status = "returned"
                 /\ result.kind = "dict"
                 /\ DOMAIN result.items =
                       {C28_Key(algo_dict[j]) : j \in DOMAIN algo_dict}
                 /\ \A k \in DOMAIN result.items :
                       result.items[k] =
                          C28_Value(algo_dict[Last(k)], address_fields)

\* a state with a text and the bytes of a public key under a key listed as
\* an address, made a dict
C28_Witness ==
    /\ call.op = "application_global_state"
    /\ call.status = "returned"
    /\ result.kind = "dict"
    /\ DOMAIN result.items = {"Buyer", "Payment-Addr"}
    /\ result.items["Buyer"].kind = "str"
    /\ result.items["Payment-Addr"].kind = "address"
    /\ ~result.items["Payment-Addr"].of.utf8

----------------------------------------------------------------------------
(* C24, C29, C30: the order of the steps of a call                         *)

\* the events of the running call that are the finish line
FinishLines ==
    {i \in DOMAIN ev : ev[i].e = "log" /\ ev[i].line = "Finished"}

\* the events of the running call that are the running line
RunningLines ==
    {i \in DOMAIN ev : ev[i].e = "log" /\ ev[i].line = "Running"}

\* C24: when the builder raises, the call fails at once with the builder's
\* error: the builder was invoked once and is the last thing that happened,
\* nothing was signed, submitted, polled or fetched, no finish line was
\* logged and nothing was returned.
C24_BuilderRaises ==
    /\ Failure = "BuilderError" =>
          /\ call.status = "raised"
          /\ Count("build") = 1
          /\ ev[Len(ev)].e = "build"
          /\ ~Happened("sign")
          /\ ~Happened("submit")
          /\ ~Happened("poll")
          /\ ~Happened("info")
          /\ ~Happened("extract")
          /\ ~Happened("return")
          /\ FinishLines = {}
    /\ (Failure # "None" /\ ev # <<>> /\ ev[Len(ev)].e = "build") =>
          Failure = "BuilderError"

\* the builder of a call that would have been sent raised
C24_Witness ==
    /\ Failure = "BuilderError"
    /\ ~call.f_no_send

\* the place of a step among the steps of a sent call; the fetch of the
\* suggested params and the running line come before them all
C29_Place(x) ==
    CASE x.e = "build" -> 1
      [] x.e = "sign" -> 2
      [] x.e = "submit" -> 3
      [] x.e = "poll" -> 4
      [] x.e = "info" -> 5
      [] x.e = "log" /\ x.line = "Finished" -> 6
      [] x.e = "extract" -> 7
      [] x.e = "return" -> 8
      [] OTHER -> 0

\* a payment of a standard account, called without params and sent
C29_PlainPayment ==
    /\ call.op = "payment_transaction"
    /\ call.outer = "None"
    /\ call.passed = NoneV
    /\ call.sender = UserA
    /\ ~call.f_no_send
    /\ ~call.f_no_params
    /\ ~call.f_no_sign

\* C29: in a sent call the builder, the signing (unless f_no_sign), the
\* submission, the wait for the confirmation, the fetch of the confirmed
\* transaction, the finish line, the extraction of the result and the
\* return happen in this order, each at most once (the wait asking at most
\* RoundBudget times); the confirmed transaction is fetched and the call
\* returns only after the wait.  A payment without params that returned
\* fetched the suggested params once, submitted once a list of one, and
\* returned None (with the transaction id when f_with_txn_id).
C29_StepOrder ==
    (InCall /\ ~call.f_no_send) =>
        /\ \A i, j \in DOMAIN ev :
              (i < j /\ C29_Place(ev[j]) # 0) =>
                 \/ C29_Place(ev[i]) < C29_Place(ev[j])
                 \/ ev[i].e = "poll" /\ ev[j].e = "poll"
        /\ Count("poll") <= RoundBudget
        /\ Happened("sign") => ~call.f_no_sign
        /\ Happened("info") => Happened("poll") /\ Happened("submit")
        /\ Happened("return") =>
              /\ Happened("info")
              /\ Happened("extract")
              /\ Happened("build")
              /\ call.f_no_sign \/ Happened("sign")
              /\ call.f_no_log \/ FinishLines # {}
        /\ (C29_PlainPayment /\ call.status = "returned") =>
              /\ Count("fetch") = 1
              /\ Count("submit") = 1
              /\ Len(call.submitted) = 1
              /\ Count("info") = 1
              /\ result = IF call.f_with_txn_id
                          THEN Tuple(call.txn_id, NoneV) ELSE NoneV

\* a payment without params that was sent and returned None after a wait
\* of more than one round
C29_Witness ==
    /\ C29_PlainPayment
    /\ call.status = "returned"
    /\ result = NoneV
    /\ Count("poll") > 1

\* C30 as stated: the running line is logged before the suggested params
\* are fetched, so a call that logs and whose fetch failed has logged that
\* it is running.
C30_RunningBeforeFetch ==
    (InCall /\ ~call.f_no_log) =>
        \A j \in Events("fetch") : \E i \in RunningLines : i < j

\* C30, amended: the suggested params are fetched before the running line
\* is logged: a call whose fetch failed has logged nothing, and a call that
\* logs has its one running line after the fetch, if there was one, and
\* right before the builder is invoked.
C30_FetchBeforeRunning ==
    InCall =>
        /\ \A j \in Events("fetch") : \A i \in RunningLines : j < i
        /\ (call.status = "raised" /\ ev # <<>> /\ ev[Len(ev)].e = "fetch") =>
              /\ Events("log") = {}
              /\ Len(ev) = 1
        /\ (~call.f_no_log /\ Happened("build")) =>
              /\ Cardinality(RunningLines) = 1
              /\ \A i \in RunningLines : ev[i + 1].e = "build"
        /\ call.f_no_log => Events("log") = {}

\* a call that logs and whose fetch of the suggested params failed
C30_Witness ==
    /\ InCall
    /\ ~call.f_no_log
    /\ call.status = "raised"
    /\ ev # <<>>
    /\ ev[Len(ev)].e = "fetch"

----------------------------------------------------------------------------
(* transaction_ops.py: a group sent while the module's _no_sign is set      *)
(*                                                                         *)
(* A caller keeps payments of one account inside a TxnElemsContext, sets   *)
(* the module's _no_sign or leaves it, and sends the pairs it kept as a    *)
(* group.                                                                  *)

\* transaction_ops._no_sign = True, or put back to None
SetNoSign ==
    /\ pc = "idle"
    /\ stack = <<>>
    /\ _no_sign' = IF _no_sign = "None" THEN "True" ELSE "None"
    /\ UNCHANGED <<_no_log, _no_params, _no_send, outside, _with_txn_id,
                   stack, pc, call, ev, exc, result, lastexit, heap, msigs,
                   held>>

\* payment_transaction(A, B, ...) or payment_transaction(A, C, ...) inside
\* the scope
KeepPaymentOfOne ==
    /\ stack # <<>>
    /\ \E receiver \in {"B", "C"} :
          Enter("payment_transaction", "None", NoneV, NoneV, UserA, receiver,
                <<>>, <<>>, {}, Len(held) < MaxHeld)

\* client.send_transactions(transactions) of signed transactions, which
\* algod answers
SubmitSigned ==
    /\ \A i \in DOMAIN call.output_to_send :
          call.output_to_send[i].kind \in
             {"SignedTransaction", "LogicSigTransaction",
              "MultisigTransaction"}
    /\ SubmitStep

\* client.send_transactions(transactions) of a list with something in it
\* that is no signed transaction: it cannot be encoded
SubmitUnsigned ==
    /\ pc = "submit"
    /\ \E i \in DOMAIN call.output_to_send :
          call.output_to_send[i].kind \notin
             {"SignedTransaction", "LogicSigTransaction",
              "MultisigTransaction"}
    /\ Raise("AttributeError", Append(ev, SubmitEvent), msigs)

NextDeferSign ==
    \/ SetNoSign
    \/ OpenScope
    \/ TxnElemsExit
    \/ Resume
    \/ Forget
    \/ KeepPaymentOfOne
    \/ GroupKept
    \/ ParamsStep
    \/ BuildStep
    \/ SignStep
    \/ SubmitSigned
    \/ SubmitUnsigned
    \/ PollConfirmed
    \/ InfoStep
    \/ FinishStep
    \/ Reach

SpecDeferSign == Init /\ [][NextDeferSign]_vars

----------------------------------------------------------------------------
(* C23: a group of two payments sent with f_no_sign                        *)

\* the running call is a group over the payment to B and the payment to C,
\* in this order, and it is sent with f_no_sign
C23_Scenario ==
    /\ IsGroupCall
    /\ call.f_no_sign
    /\ ~call.f_no_send
    /\ Len(call.transactions) = 2
    /\ \A i \in {1, 2} : PairTxn(i).kind = "Transaction"
    /\ heap[PairTxn(1).ref].target = "B"
    /\ heap[PairTxn(2).ref].target = "C"

\* C23: two payments built inside a TxnElemsContext (A to B, then A to C),
\* made a group, the group sent with f_no_sign: the list that is submitted
\* has two elements, the payment to B and then the payment to C, under one
\* group id.
C23_TwoSubmitted ==
    C23_Scenario =>
        \A e \in Events("submit") :
            /\ Len(ev[e].list) = 2
            /\ ev[e].list[1].transaction.target = "B"
            /\ ev[e].list[2].transaction.target = "C"
            /\ ev[e].list[1].transaction.group # NoGroup
            /\ ev[e].list[1].transaction.group =
                  ev[e].list[2].transaction.group

----------------------------------------------------------------------------
(* transaction_ops.py: a DeployedAppID or DeployedAssetID as a context      *)
(* manager                                                                 *)
(*                                                                         *)
(* A caller enters with blocks over ids that create_app,                   *)
(* create_compiled_app or create_asset returned to it, alone or around or  *)
(* inside a TxnElemsContext; the body ends or raises.                      *)

\* with app_id: / with asset_id: __enter__ returns self
DeployedEnter ==
    /\ pc = "idle"
    /\ Len(stack) < MaxDepth
    /\ \E outer \in PublicWrappers, owner \in {UserA, UserB} :
          stack' = Append(stack,
                          [kind |-> Deployed(outer, IntV(1), owner).value.kind,
                           pre |-> switches,
                           self |-> Deployed(outer, IntV(1), owner).value,
                           exiting |-> FALSE])
    /\ UNCHANGED <<_no_log, _no_params, _no_send, _no_sign, outside,
                   _with_txn_id, pc, call, ev, exc, result, lastexit, heap,
                   msigs, held>>

\* __exit__ begins: delete_app(self.owner, app_id=self) or
\* destroy_asset(self.owner, asset_id=self) is called, the exception of the
\* body, if any, being in flight
DeployedExit ==
    /\ pc \in {"idle", "raise"}
    /\ stack # <<>>
    /\ Top.kind \in {"DeployedAppID", "DeployedAssetID"}
    /\ ~Top.exiting
    /\ LET op == IF Top.kind = "DeployedAppID" THEN "delete_app"
                 ELSE "destroy_asset"
       IN call' = [NoCall EXCEPT
                     !.op = op, !.outer = "__exit__",
                     !.sender = Top.self.owner,
                     !.target = Top.self.v,
                     !.seen = switches,
                     !.f_no_log = Resolve(Declared(op).no_log, _no_log),
                     !.f_no_params =
                         Resolve(Declared(op).no_params, _no_params),
                     !.f_no_send = Resolve(Declared(op).no_send, _no_send),
                     !.f_no_sign = Resolve(Declared(op).no_sign, _no_sign),
                     !.f_with_txn_id =
                         Resolve(Declared(op).with_txn_id, _with_txn_id),
                     !.status = "running"]
    /\ stack' = [stack EXCEPT ![Len(stack)].exiting = TRUE]
    /\ pc' = "params"
    /\ ev' = <<>>
    /\ UNCHANGED <<_no_log, _no_params, _no_send, _no_sign, outside,
                   _with_txn_id, exc, result, lastexit, heap, msigs, held>>

\* __exit__ ends: the call returned and __exit__ returns False, or the call
\* raised and its exception leaves __exit__ in place of the one in flight
DeployedLeave ==
    /\ stack # <<>>
    /\ Top.kind \in {"DeployedAppID", "DeployedAssetID"}
    /\ Top.exiting
    /\ \/ pc = "wrap"
       \/ pc = "raise" /\ call.status = "raised"
    /\ stack' = SubSeq(stack, 1, Len(stack) - 1)
    /\ lastexit' = [kind |-> Top.kind, pre |-> Top.pre, raised |-> exc]
    /\ IF pc = "wrap" /\ (exc = "None" \/ ExitReturn)
       THEN pc' = "done" /\ exc' = "None"
       ELSE pc' = "raise" /\ exc' = exc
    /\ UNCHANGED <<_no_log, _no_params, _no_send, _no_sign, outside,
                   _with_txn_id, call, ev, result, heap, msigs, held>>

NextDeployed ==
    \/ DeployedEnter
    \/ DeployedExit
    \/ DeployedLeave
    \/ TxnElemsEnter
    \/ TxnElemsExit
    \/ BodyRaise
    \/ Reach
    \/ Resume
    \/ ParamsStep
    \/ ParamsFail
    \/ BuildStep
    \/ SignStep
    \/ SubmitStep
    \/ SubmitFail
    \/ PollConfirmed
    \/ InfoStep
    \/ FinishStep

SpecDeployed == Init /\ [][NextDeployed]_vars

----------------------------------------------------------------------------
(* C25: what leaving the with block of a deployed id does                  *)

\* the submissions of the running call that delete the application or
\* destroy the asset self in the name of its owner
C25_Deletions(self) ==
    {i \in Events("submit") :
        /\ Len(ev[i].list) = 1
        /\ ev[i].list[1].kind = "SignedTransaction"
        /\ ev[i].list[1].key = self.owner.private_key
        /\ ev[i].list[1].transaction.sender = self.owner.address
        /\ ev[i].list[1].transaction.target = self.v
        /\ ev[i].list[1].transaction.type =
              IF self.kind = "DeployedAppID" THEN "appl-delete"
              ELSE "acfg-destroy"}

\* C25: leaving the with block of a DeployedAppID (DeployedAssetID) makes
\* one call of delete_app (destroy_asset) for that id and its recorded
\* owner, whether the body ended or raised; the call submits at most once,
\* what it submits is the deletion of that id signed by the owner, and a
\* call that ended and was not deferred by a TxnElemsContext around the
\* block has submitted it once.  An exception of the body is in flight
\* again when __exit__ has returned.
C25_CleanupOnExit ==
    /\ \A i \in DOMAIN stack :
          (stack[i].kind \in {"DeployedAppID", "DeployedAssetID"}
              /\ stack[i].exiting) =>
             /\ i = Len(stack)
             /\ InCall
             /\ call.outer = "__exit__"
             /\ call.op = IF stack[i].kind = "DeployedAppID"
                          THEN "delete_app" ELSE "destroy_asset"
             /\ call.sender = stack[i].self.owner
             /\ call.target = stack[i].self.v
             /\ Count("submit") <= 1
             /\ Events("submit") = C25_Deletions(stack[i].self)
             /\ Count("build") <= 1
             /\ (pc = "wrap" /\ ~call.f_no_send) =>
                   Cardinality(C25_Deletions(stack[i].self)) = 1
             /\ (pc = "wrap" /\ call.f_no_send) =>
                   \E j \in DOMAIN stack : stack[j].kind = "TxnElemsContext"
    /\ (call.outer = "__exit__" /\ call.status = "returned"
           /\ (\A i \in DOMAIN stack :
                  stack[i].kind = "TxnElemsContext" \/ ~stack[i].exiting)
           /\ lastexit # NoneV
           /\ lastexit.kind \in {"DeployedAppID", "DeployedAssetID"}) =>
          IF lastexit.raised # "None"
          THEN \/ pc = "raise" /\ exc = lastexit.raised
               \/ /\ pc = "done"
                  /\ result = [kind |-> "raised", exc |-> lastexit.raised]
          ELSE pc = "done" /\ exc = "None" /\ result.kind # "raised"

\* the body raised, the application was deleted once on the way out and
\* the exception of the body is in flight
C25_Witness ==
    /\ call.outer = "__exit__"
    /\ call.op = "delete_app"
    /\ call.status = "returned"
    /\ Count("submit") = 1
    /\ lastexit # NoneV
    /\ lastexit.kind = "DeployedAppID"
    /\ lastexit.raised = "BodyError"
    /\ pc = "raise"
    /\ exc = "BodyError"

----------------------------------------------------------------------------
(* C31: the lines a call logs                                              *)

\* C31: a call whose logging is off (declared, or under a TxnElemsContext)
\* logs nothing; a call that logs and was sent and returned has logged one
\* running line and one finish line, the finish line with what
\* format_finish makes of the response when the operation has one and
\* without anything when it has none; a call that logs and returned its
\* pair unsent has logged the running line alone (TxnElemsContext sets
\* _no_send and _no_log together and no operation declares no_send, so the
\* callers modelled here make no such call).
C31_ProgressLines ==
    InCall =>
        /\ call.f_no_log => Events("log") = {}
        /\ Events("log") = RunningLines \cup FinishLines
        /\ Cardinality(RunningLines) <= 1
        /\ Cardinality(FinishLines) <= 1
        /\ (~call.f_no_log /\ call.status = "returned") =>
              /\ Cardinality(RunningLines) = 1
              /\ Cardinality(FinishLines) = IF call.f_no_send THEN 0 ELSE 1
              /\ \A i \in FinishLines :
                    IF call.op \in {"_create_compiled_app", "delete_app",
                                    "_create_asset", "destroy_asset"}
                    THEN /\ ev[i].detail.kind = "formatted"
                         /\ ev[i].detail.value =
                               Field(call.transaction_response,
                                     ev[i].detail.name)
                    ELSE ev[i].detail = NoneV

\* delete_app was sent and returned outside any TxnElemsContext: its finish
\* line has the id of the application
C31_Witness ==
    /\ InCall
    /\ call.op = "delete_app"
    /\ ~call.f_no_log
    /\ call.status = "returned"
    /\ FinishLines # {}
    /\ \A i \in FinishLines : ev[i].detail.kind = "formatted"

----------------------------------------------------------------------------
(* C32: the group id and the Transaction under a wrapper                   *)

\* the running group call has built its _GroupTxn over a payload that is a
\* LogicSigTransaction or a _MultisigTxn
C32_Wrapped ==
    /\ IsGroupCall
    /\ Happened("build")
    /\ call.built # NoneV
    /\ \E i \in DOMAIN call.transactions :
          PairTxn(i).kind \in {"LogicSigTransaction", "_MultisigTxn"}

\* C32: in a group with a LogicSigTransaction or a _MultisigTxn among its
\* payloads the group id is that of the Transactions, the one under a
\* wrapper taken for the wrapper, and it is written to these Transactions:
\* once the group is built the Transaction under every wrapper has the
\* group id that every plain payload of the group has, the wrappers are the
\* objects they were, and what is submitted has that id throughout.
C32_UnderlyingTagged ==
    C32_Wrapped =>
        LET gid == heap[PairTxn(1).ref].group
        IN /\ gid # NoGroup
           /\ Len(gid.txids) = Len(call.transactions)
           /\ \A i \in DOMAIN call.transactions :
                 /\ heap[PairTxn(i).ref].group = gid
                 /\ gid.txids[i] = [heap[PairTxn(i).ref] EXCEPT !.group = NoGroup]
                 /\ call.txn.transactions[i] = PairTxn(i)
           /\ \A e \in Events("submit") :
                 \A i \in DOMAIN ev[e].list :
                    ev[e].list[i].transaction.group = gid

\* a group of a LogicSigTransaction and a plain payment has been built
C32_Witness ==
    /\ C32_Wrapped
    /\ Len(call.transactions) = 2
    /\ \E i, j \in DOMAIN call.transactions :
          /\ PairTxn(i).kind = "LogicSigTransaction"
          /\ PairTxn(j).kind = "Transaction"
          /\ heap[PairTxn(i).ref].group = heap[PairTxn(j).ref].group
          /\ heap[PairTxn(i).ref].group # NoGroup

----------------------------------------------------------------------------
(* C33: what client.send_transactions is handed                            *)

\* what is under an element of a submitted list: the kinds of the objects
\* that can be sent, none of them a list
C33_Sendable ==
    {"SignedTransaction", "LogicSigTransaction", "MultisigTransaction"}

\* C33: client.send_transactions is always handed a list.  What sign made
\* of a payload that is no group (or the payload itself when f_no_sign) is
\* one object, and the list is that object alone; what sign made of a group
\* is a list, and that list is what is submitted, an element for a pair in
\* the order of the pairs, no element a list.
C33_AlwaysAList ==
    InCall =>
        \A e \in Events("submit") :
            LET list == ev[e].list
            IN /\ \A i \in DOMAIN list : list[i].kind \in C33_Sendable
               /\ IF call.txn.kind = "_GroupTxn"
                  THEN /\ Len(list) = Len(call.transactions)
                       /\ \A i \in DOMAIN call.transactions :
                             list[i].transaction = heap[PairTxn(i).ref]
                  ELSE /\ Len(list) = 1
                       /\ list[1].transaction = heap[call.txn.ref]
                       /\ call.f_no_sign => list[1].kind = call.txn.kind

\* a group of two was submitted as a list of two
C33_Witness ==
    /\ IsGroupCall
    /\ Happened("submit")
    /\ call.submitted # <<>>
    /\ Len(call.submitted) = 2
    /\ call.submitted[1].kind \in C33_Sendable
    /\ call.submitted[2].kind \in C33_Sendable

----------------------------------------------------------------------------
(* C36: who writes the switches                                            *)

\* the kind of the scope that a step enters or leaves
C36_Scope ==
    IF Len(stack') > Len(stack) THEN stack'[Len(stack')].kind
    ELSE stack[Len(stack)].kind

\* C36: a step of a pipeline call, returning or raising, writes no switch;
\* entering or leaving a TxnElemsContext writes _no_send and _no_log alone,
\* entering or leaving a TxnIDContext writes _with_txn_id alone; _no_params
\* and _no_sign are None before and after every step.
C36_SwitchFrames ==
    [][/\ stack' = stack => switches' = switches
       /\ (stack' # stack /\ C36_Scope = "TxnElemsContext") =>
             UNCHANGED <<_no_params, _no_sign, _with_txn_id>>
       /\ (stack' # stack /\ C36_Scope = "TxnIDContext") =>
             UNCHANGED <<_no_log, _no_params, _no_send, _no_sign>>
       /\ _no_params = "None" /\ _no_params' = "None"
       /\ _no_sign = "None" /\ _no_sign' = "None"]_vars

\* a TxnElemsContext inside a TxnIDContext was left and _with_txn_id is as
\* the outer scope set it
C36_Witness ==
    /\ lastexit # NoneV
    /\ lastexit.kind = "TxnElemsContext"
    /\ Len(stack) = 1
    /\ stack[1].kind = "TxnIDContext"
    /\ _with_txn_id = "True"
    /\ _no_send = "None"

----------------------------------------------------------------------------
(* C35: a group is signed after it is tagged                               *)

\* the step in which the pipeline signs the group it built
C35_GroupSign ==
    /\ pc = "sign"
    /\ call.op = "group_transaction"
    /\ ~call.f_no_sign

\* C35: when the pipeline comes to sign a group, the Transaction under every
\* payload has the group id already, and signing leaves the Transactions as
\* they are; every signature the step makes, the one of a plain payload's
\* SignedTransaction and each one put on a multisig descriptor, is over the
\* Transaction with its group id.
C35_SignedAfterTagged ==
    [][C35_GroupSign =>
         /\ heap' = heap
         /\ \A i \in DOMAIN call.transactions :
               /\ heap[PairTxn(i).ref].group # NoGroup
               /\ heap[PairTxn(i).ref].group = heap[PairTxn(1).ref].group
               /\ (pc' = "submit" /\ PairTxn(i).kind = "Transaction") =>
                     /\ call'.output_to_send[i].kind = "SignedTransaction"
                     /\ call'.output_to_send[i].transaction
                            = heap[PairTxn(i).ref]
               /\ PairTxn(i).kind = "_MultisigTxn" =>
                     \A j \in DOMAIN msigs[PairTxn(i).mref].subsigs :
                        LET before == msigs[PairTxn(i).mref].subsigs[j].signature
                            after == msigs'[PairTxn(i).mref].subsigs[j].signature
                        IN after # before =>
                              after.over = heap[PairTxn(i).ref]]_vars

\* a group of a plain payment and a multisig payment has been signed: the
\* signatures are over the two Transactions with the group's id
C35_Witness ==
    /\ IsGroupCall
    /\ pc = "submit"
    /\ Len(call.transactions) = 2
    /\ \E i, j \in DOMAIN call.transactions :
          /\ PairTxn(i).kind = "Transaction"
          /\ PairTxn(j).kind = "_MultisigTxn"
          /\ call.output_to_send[i].kind = "SignedTransaction"
          /\ call.output_to_send[i].transaction.group # NoGroup
          /\ \E k \in DOMAIN msigs[PairTxn(j).mref].subsigs :
                /\ msigs[PairTxn(j).mref].subsigs[k].signature # NoneV
                /\ msigs[PairTxn(j).mref].subsigs[k].signature.over.group
                      = call.output_to_send[i].transaction.group

----------------------------------------------------------------------------
(* C38: the wallet handles of _get_kmd_account_private_key                 *)

\* the requests of an attempt that gave a wallet handle
C38_Initialised(attempt) ==
    {i \in Asked(attempt, "init_wallet_handle") :
        attempt.requests[i].handle # "None"}

\* the requests of an attempt that released the handle h
C38_Released(attempt, h) ==
    {i \in Asked(attempt, "release_wallet_handle") :
        attempt.requests[i].handle = h}

\* C38: in every run of _get_kmd_account_private_key, ended by a return or
\* by an exception, that of export_key among them, each wallet handle that
\* was initialised is released exactly once, after it was initialised and
\* after the key was asked for, and no handle is released that was not
\* initialised.
C38_ReleasedOnce ==
    \A a \in DOMAIN Attempts :
        LET attempt == Attempts[a]
        IN /\ \A i \in C38_Initialised(attempt) :
                 LET h == attempt.requests[i].handle
                 IN /\ Cardinality(C38_Released(attempt, h)) = 1
                    /\ \A r \in C38_Released(attempt, h) :
                          /\ i < r
                          /\ \A x \in Asked(attempt, "export_key") : x < r
           /\ \A r \in Asked(attempt, "release_wallet_handle") :
                 \E i \in C38_Initialised(attempt) :
                    attempt.requests[i].handle = attempt.requests[r].handle

\* export_key raised on an initialised handle, and the handle was released
C38_Witness ==
    /\ call.status = "raised"
    /\ Attempts # <<>>
    /\ LET attempt == Attempts[Len(Attempts)]
       IN /\ attempt.err = "KMDHTTPError"
          /\ C38_Initialised(attempt) # {}
          /\ Asked(attempt, "export_key") # {}
          /\ Asked(attempt, "release_wallet_handle") # {}

----------------------------------------------------------------------------
(* C37: a read query comes to an end                                       *)

\* C37: every call of a read query under _wait_for_indexer returns or raises
\* in the end, the wait for the indexer to catch up and the retries being
\* bounded by ConfigParams.indexer_timeout.
C37_ReadCallEnds ==
    (pc = "algod_round") ~> (call.status \in {"returned", "raised"})

----------------------------------------------------------------------------
(* Two callers in two threads of one process: the switches are module      *)
(* globals that nothing guards, each caller has its position, its with     *)
(* block and its locals.  The threads are switched between statements.     *)

Callers == DOMAIN threads

\* with TxnElemsContext(): __enter__ run by the caller t, statement by
\* statement: _no_send = True, then _no_log = True
ThreadEnter(t) ==
    /\ \/ /\ threads[t].pc = "idle"
          /\ ~threads[t].scope
          /\ _no_send' = "True"
          /\ _no_log' = _no_log
          /\ threads' = [threads EXCEPT ![t].pc = "__enter__",
                                        ![t].scope = TRUE]
       \/ /\ threads[t].pc = "__enter__"
          /\ _no_log' = "True"
          /\ _no_send' = _no_send
          /\ threads' = [threads EXCEPT ![t].pc = "idle"]
    /\ UNCHANGED <<_no_params, _no_sign, _with_txn_id, stack, pc, call, ev,
                   exc, result, lastexit, heap, msigs, held, ConfigParams,
                   lru_cache>>

\* TxnElemsContext.__exit__ run by the caller t: _no_send = None, then
\* _no_log = None, and the with block is left
ThreadExit(t) ==
    /\ \/ /\ threads[t].pc = "idle"
          /\ threads[t].scope
          /\ _no_send' = "None"
          /\ _no_log' = _no_log
          /\ threads' = [threads EXCEPT ![t].pc = "__exit__"]
       \/ /\ threads[t].pc = "__exit__"
          /\ _no_log' = "None"
          /\ _no_send' = _no_send
          /\ threads' = [threads EXCEPT ![t].pc = "idle",
                                        ![t].scope = FALSE]
    /\ UNCHANGED <<_no_params, _no_sign, _with_txn_id, stack, pc, call, ev,
                   exc, result, lastexit, heap, msigs, held, ConfigParams,
                   lru_cache>>

\* the bug: each caller has switches of its own, set in its own with block
ThreadCall_OwnScope(t) ==
    /\ \/ /\ threads[t].pc = "idle"
          /\ threads[t].calls < MaxCalls
          /\ threads' = [threads EXCEPT
                           ![t].pc = "wrapped",
                           ![t].calls = @ + 1,
                           ![t].f_no_log = threads[t].scope]
       \/ /\ threads[t].pc = "wrapped"
          /\ threads' = [threads EXCEPT
                           ![t].pc = "build",
                           ![t].f_no_send = threads[t].scope]
    /\ UNCHANGED <<_no_log, _no_params, _no_send, _no_sign, _with_txn_id,
                   stack, pc, call, ev, exc, result, lastexit, heap, msigs,
                   held, ConfigParams, lru_cache>>

\* lines 157-161 run by the caller t in a call of an operation declared
\* with no switch, payment_transaction say: f_no_log is resolved, then
\* f_no_send
ThreadCall(t) ==
    /\ \/ /\ threads[t].pc = "idle"
          /\ threads[t].calls < MaxCalls
          /\ threads' = [threads EXCEPT
                           ![t].pc = "wrapped",
                           ![t].calls = @ + 1,
                           ![t].f_no_log = Resolve(FALSE, _no_log)]
       \/ /\ threads[t].pc = "wrapped"
          /\ threads' = [threads EXCEPT
                           ![t].pc = "build",
                           ![t].f_no_send = Resolve(FALSE, _no_send)]
    /\ UNCHANGED <<_no_log, _no_params, _no_send, _no_sign, _with_txn_id,
                   stack, pc, call, ev, exc, result, lastexit, heap, msigs,
                   held, ConfigParams, lru_cache>>

\* lines 182-219 run by the caller t: the unsent pair is returned, or the
\* transaction is signed, submitted and confirmed and None is returned; the
\* caller assigns the value to the local of the place the call is at,
\* inside its with block or outside it
ThreadReturn(t) ==
    /\ threads[t].pc = "build"
    /\ LET value == IF threads[t].f_no_send THEN "pair" ELSE "sent"
           submitted == IF threads[t].f_no_send THEN threads[t].submitted
                        ELSE threads[t].submitted + 1
       IN threads' =
             IF threads[t].scope
             THEN [threads EXCEPT ![t].pc = "idle", ![t].inner = value,
                                  ![t].submitted = submitted]
             ELSE [threads EXCEPT ![t].pc = "idle", ![t].outer = value,
                                  ![t].submitted = submitted]
    /\ UNCHANGED <<_no_log, _no_params, _no_send, _no_sign, _with_txn_id,
                   stack, pc, call, ev, exc, result, lastexit, heap, msigs,
                   held, ConfigParams, lru_cache>>

NextThreads ==
    \/ \E t \in Callers : ThreadEnter(t)
    \/ \E t \in Callers : ThreadExit(t)
    \/ \E t \in Callers : ThreadCall(t)
    \/ \E t \in Callers : ThreadReturn(t)

SpecThreads == Init /\ [][NextThreads]_vars

----------------------------------------------------------------------------
(* C34: two callers and the one _no_send                                   *)

\* the caller t resolves f_no_send in this step
C34_Resolves(t) == threads[t].pc = "wrapped" /\ threads'[t].pc = "build"

\* the call of the caller t ends in this step
C34_Returns(t) == threads[t].pc = "build" /\ threads'[t].pc = "idle"

\* C34: nothing keeps the switches of one caller from another.  A call
\* resolves f_no_send from _no_send as it is at that moment, whoever wrote
\* it and wherever the caller is: a call made outside any with block is
\* deferred when another caller is inside a TxnElemsContext, and a call made
\* inside the caller's own block is sent when _no_send was unset by
\* another's __exit__.  A deferred call returns the unsent pair and submits
\* nothing, any other submits once.
C34_SharedSwitch ==
    [][\A t \in Callers :
         /\ C34_Resolves(t) =>
               /\ threads'[t].f_no_send = (_no_send = "True")
               /\ (threads'[t].f_no_send /\ ~threads[t].scope) =>
                     \E u \in Callers \ {t} : threads[u].scope
               /\ (~threads'[t].f_no_send /\ threads[t].scope) =>
                     _no_send = "None"
         /\ C34_Returns(t) =>
               LET value == IF threads[t].scope THEN threads'[t].inner
                            ELSE threads'[t].outer
               IN IF threads[t].f_no_send
                  THEN /\ value = "pair"
                       /\ threads'[t].submitted = threads[t].submitted
                  ELSE /\ value = "sent"
                       /\ threads'[t].submitted = threads[t].submitted + 1]_vars

\* one caller made its call outside any with block and got an unsent pair,
\* having submitted nothing; the other made its call inside its
\* TxnElemsContext, which it is in still, and the transaction was sent
C34_Witness ==
    \E t, u \in Callers :
        /\ t # u
        /\ threads[t].outer = "pair"
        /\ threads[t].submitted = 0
        /\ threads[u].scope
        /\ threads[u].pc = "idle"
        /\ threads[u].inner = "sent"
        /\ threads[u].submitted = 1

====
